---------------------------- MODULE Spec2Model ----------------------------
(***************************************************************************)
(* Model of segmentador.py: the adaptive parallel scan orchestrator.       *)
(*                                                                         *)
(* Pure helpers of the source (RetryHelper, NetworkValidator, the artifact *)
(* validation, the tier selection) are operators.  The run controller, the *)
(* scanner and its worker threads are a state machine.                     *)
(*                                                                         *)
(* Specifications:                                                         *)
(*   Spec          Segmentador.run under main(): from the constructed      *)
(*                 application object to process exit.                     *)
(*   SpecDispatch  NetworkScanner.scan_networks_granular called with an    *)
(*                 arbitrary list of network specs.                        *)
(*   SpecRetry     RetryHelper.retry_with_backoff on an arbitrary function.*)
(*   SpecBackoff   the delay computed by retry_with_backoff after a failed *)
(*                 attempt.                                                *)
(*   SpecExec      NetworkScanner.execute_nmap_scan on an arbitrary tool   *)
(*                 behaviour and arbitrary emitted artifacts.              *)
(*   SpecData      the gnmap parser, CanonicalScanData.from_results,       *)
(*                 AuditStats.activity_rate, _create_canonical_model and   *)
(*                 the second pass of _scan_with_verification on arbitrary *)
(*                 inputs.                                                 *)
(*   SpecNet       the functions of NetworkValidator and load_from_file on *)
(*                 arbitrary specs and files.                              *)
(*   SpecMerge     XMLMerger.merge_xml_files and _merge_scan_results on    *)
(*                 arbitrary tree artifacts and write outcomes.            *)
(*   SpecShared    the pool threads of one batch at the grain of their     *)
(*                 lock and method entries and exits.                      *)
(*   SpecReinterrupt  Spec with a further KeyboardInterrupt during the     *)
(*                 join of the pool.                                       *)
(***************************************************************************)
EXTENDS Integers, Sequences, FiniteSets, TLC

(***************************************************************************)
(* Program constants.                                                      *)
(***************************************************************************)
MAX_RETRIES == 3
BASE_RETRY_DELAY == 1
MAX_CONCURRENT_SCANS == 10

(***************************************************************************)
(* Bounds of the model.                                                    *)
(***************************************************************************)
MaxJobs == 2          \* largest value of args.jobs
MaxNets == 3          \* longest list of network specs handed to the scanner
MaxLines == 3         \* longest network file
MaxRetriesArg == 3    \* largest max_retries handed to retry_with_backoff
AddrBits == 3         \* width of a model address (32 in IPv4)
MaxPortEntries == 2   \* most port entries on a line of a gnmap file
MaxHostLines == 3     \* longest gnmap file
MaxRecords == 2       \* longest raw list handed to from_results
MaxXmlFiles == 3      \* most tree artifacts handed to one merge

Min(x, y) == IF x <= y THEN x ELSE y

RECURSIVE Pow(_, _)
Pow(b, e) == IF e = 0 THEN 1 ELSE b * Pow(b, e - 1)

Range(s) == {s[i] : i \in 1..Len(s)}

SeqsUpTo(S, n) == UNION {[1..k -> S] : k \in 0..n}

(***************************************************************************)
(* Network specs.  A spec string is a record:                              *)
(*   form "cidr"  : address a of family fa, prefix length p (NoPrefix when *)
(*                  the string is a bare address), ws = surrounding blanks *)
(*   form "range" : "a-b" with endpoint families fa, fb, ws = blanks       *)
(*                  around the endpoints                                   *)
(*   form "junk"  : a string that parses as neither (a identifies it)      *)
(***************************************************************************)
NoPrefix == 0 - 1

Cidr(a, p) == [form |-> "cidr", fa |-> 4, a |-> a, fb |-> 4, b |-> 0, p |-> p, ws |-> FALSE]
IpRange(a, b) == [form |-> "range", fa |-> 4, a |-> a, fb |-> 4, b |-> b, p |-> 0, ws |-> FALSE]
Junk(i) == [form |-> "junk", fa |-> 4, a |-> i, fb |-> 4, b |-> 0, p |-> 0, ws |-> FALSE]
Padded(n) == [n EXCEPT !.ws = TRUE]

\* network address of a under prefix length p: the host bits are cleared
MaskAddr(a, p) == (a \div Pow(2, AddrBits - p)) * Pow(2, AddrBits - p)

\* ipaddress.ip_network(s, strict): "ok" or the exception it raises
IpNetworkParses(n, strict) ==
  /\ n.form = "cidr"
  /\ ~n.ws
  /\ (strict /\ n.p # NoPrefix) => MaskAddr(n.a, n.p) = n.a

NormalizeNetworkNoMask(n) ==
  IF n.form = "range" THEN [n EXCEPT !.ws = FALSE]
  ELSE IF IpNetworkParses(n, FALSE)
       THEN [n EXCEPT !.p = IF n.p = NoPrefix THEN AddrBits ELSE n.p]
       ELSE n

NormalizeNetworkSwapped(n) ==
  IF n.form = "range"
    THEN [n EXCEPT !.ws = FALSE, !.a = n.b, !.b = n.a, !.fa = n.fb, !.fb = n.fa]
    ELSE IF IpNetworkParses(n, FALSE)
           THEN LET q == IF n.p = NoPrefix THEN AddrBits ELSE n.p
                IN  [n EXCEPT !.a = MaskAddr(n.a, q), !.p = q]
           ELSE n

NormalizeNetwork(n) ==
  IF n.form = "range"
    THEN [n EXCEPT !.ws = FALSE]
    ELSE IF IpNetworkParses(n, FALSE)
           THEN LET q == IF n.p = NoPrefix THEN AddrBits ELSE n.p
                IN  [n EXCEPT !.a = MaskAddr(n.a, q), !.p = q]
           ELSE n

RECURSIVE DedupLoopBySpelling(_, _, _)
DedupLoopBySpelling(networks, seen, result) ==
  IF networks = <<>> THEN result
  ELSE LET network == Head(networks)
       IN  IF network \notin seen
             THEN DedupLoopBySpelling(Tail(networks), seen \cup {network},
                                      Append(result, NormalizeNetwork(network)))
             ELSE DedupLoopBySpelling(Tail(networks), seen, result)

RECURSIVE DedupLoop(_, _, _)
DedupLoop(networks, seen, result) ==
  IF networks = <<>> THEN result
  ELSE LET normalized == NormalizeNetwork(Head(networks))
       IN  IF normalized \notin seen
             THEN DedupLoop(Tail(networks), seen \cup {normalized}, Append(result, normalized))
             ELSE DedupLoop(Tail(networks), seen, result)

DeduplicateNetworksKeepAll(networks) == [i \in 1..Len(networks) |-> NormalizeNetwork(networks[i])]

DeduplicateNetworks(networks) == DedupLoop(networks, {}, <<>>)

\* the normal forms of a set of specs
NormalForms(S) == {NormalizeNetwork(n) : n \in S}

\* validate_cidr: TRUE, or the ValueError that ip_network raises and the
\* except clause (AddressValueError, NetmaskValueError) does not catch
ValidateCidr(n) == IF IpNetworkParses(n, TRUE) THEN "True" ELSE "ValueError"

\* load_from_file: lines are specs, "blank" or "comment"; the first line that
\* is not a strict CIDR makes validate_cidr raise, which the outer handler
\* turns into NetworkValidationError
Blank == [form |-> "blank", fa |-> 4, a |-> 0, fb |-> 4, b |-> 0, p |-> 0, ws |-> FALSE]
Comment == [form |-> "comment", fa |-> 4, a |-> 0, fb |-> 4, b |-> 0, p |-> 0, ws |-> FALSE]

\* line.strip(): blanks at both ends go; blanks around the '-' of a range stay
Strip(n) == IF n.form = "range" THEN n ELSE [n EXCEPT !.ws = FALSE]

RECURSIVE LoadLoop(_, _)
LoadLoop(lines, raw_networks) ==
  IF lines = <<>>
    THEN IF raw_networks = <<>>
           THEN [err |-> "NetworkValidationError", nets |-> <<>>]
           ELSE [err |-> "none", nets |-> DeduplicateNetworks(raw_networks)]
    ELSE LET line == Strip(Head(lines))
         IN  IF line.form \in {"blank", "comment"}
               THEN LoadLoop(Tail(lines), raw_networks)
               ELSE IF ValidateCidr(line) = "True"
                      THEN LoadLoop(Tail(lines), Append(raw_networks, NormalizeNetwork(line)))
                      ELSE [err |-> "NetworkValidationError", nets |-> <<>>]

LoadFromFile(lines) == LoadLoop(lines, <<>>)

(***************************************************************************)
(* RetryHelper.retry_with_backoff.  The function is the sequence of the    *)
(* outcomes of its successive calls: "ok" or the class of the exception.   *)
(***************************************************************************)
AnyOutcomes == {"ok", "RetryableError", "TimeoutExpired", "CalledProcessError", "OSError"}
ToolOutcomes == {"ok", "RetryableError", "TimeoutExpired", "OSError"}
NmapRetryable == {"RetryableError", "TimeoutExpired"}
PingRetryable == {"RetryableError", "CalledProcessError"}

BackoffDelayFromOne(attempt, base_delay, backoff_factor) ==
  base_delay * Pow(backoff_factor, attempt + 1)

\* delay = base_delay * (backoff_factor ** attempt), attempt counted from 0
BackoffDelay(attempt, base_delay, backoff_factor) == base_delay * Pow(backoff_factor, attempt)

\* 0.5 + random.random(), in tenths: random.random() is in [0, 1)
JitterTenths == 5..14

\* the time slept after the failed attempt, in tenths of a second; tenths is
\* the value of 0.5 + random.random() when jitter is on
SleepTenths(attempt, base_delay, backoff_factor, jitter, tenths) ==
  BackoffDelay(attempt, base_delay, backoff_factor) * (IF jitter THEN tenths ELSE 10)

\* the delay before jitter under the defaults of retry_with_backoff
Delay(attempt) == BackoffDelay(attempt, BASE_RETRY_DELAY, 2)

RECURSIVE RetryLoopNoBudget(_, _, _, _, _)
RetryLoopNoBudget(func, max_retries, retryable, attempt, sleeps) ==
  LET out == func[attempt + 1]
  IN  IF out = "ok"
        THEN [status |-> "returned", exc |-> "none", calls |-> attempt + 1, sleeps |-> sleeps]
        ELSE IF out \in retryable /\ attempt + 1 < Len(func)
               THEN RetryLoopNoBudget(func, max_retries, retryable, attempt + 1,
                                      Append(sleeps, Delay(attempt)))
               ELSE [status |-> "raised", exc |-> out, calls |-> attempt + 1, sleeps |-> sleeps]

RECURSIVE RetryLoopRetryAll(_, _, _, _, _)
RetryLoopRetryAll(func, max_retries, retryable, attempt, sleeps) ==
  LET out == func[attempt + 1]
  IN  IF out = "ok"
        THEN [status |-> "returned", exc |-> "none", calls |-> attempt + 1, sleeps |-> sleeps]
        ELSE IF attempt < max_retries
               THEN RetryLoopRetryAll(func, max_retries, retryable, attempt + 1,
                                      Append(sleeps, Delay(attempt)))
               ELSE [status |-> "raised", exc |-> out, calls |-> attempt + 1, sleeps |-> sleeps]

RECURSIVE RetryLoop(_, _, _, _, _)
RetryLoop(func, max_retries, retryable, attempt, sleeps) ==
  LET out == func[attempt + 1]
  IN  IF out = "ok"
        THEN [status |-> "returned", exc |-> "none", calls |-> attempt + 1, sleeps |-> sleeps]
        ELSE IF out \in retryable
               THEN IF attempt < max_retries
                      THEN RetryLoop(func, max_retries, retryable, attempt + 1,
                                     Append(sleeps, Delay(attempt)))
                      ELSE [status |-> "raised", exc |-> out, calls |-> attempt + 1,
                            sleeps |-> sleeps]
               ELSE [status |-> "raised", exc |-> out, calls |-> attempt + 1, sleeps |-> sleeps]

RetryWithBackoff(func, max_retries, retryable) ==
  RetryLoop(func, max_retries, retryable, 0, <<>>)

\* the behaviours of a function that retry_with_backoff can tell apart: every
\* call but the last fails with a retryable error, and the sequence stops at
\* the first other outcome or after max_retries + 1 calls
Scripts(outcomes, max_retries, retryable) ==
  {f \in SeqsUpTo(outcomes, max_retries + 1) :
     /\ Len(f) >= 1
     /\ \A i \in 1..(Len(f) - 1) : f[i] \in retryable
     /\ (f[Len(f)] \in retryable => Len(f) = max_retries + 1)}

NmapScripts == Scripts(ToolOutcomes, MAX_RETRIES, NmapRetryable)
PingScripts == Scripts(ToolOutcomes, 2, PingRetryable)


(***************************************************************************)
(* NetworkScanner._validate_scan_results.  What the validator can tell     *)
(* apart in an artifact: it is missing, has size 0, holds only blanks,     *)
(* lacks the marker ('Nmap done' / '<nmaprun'), or holds it.               *)
(***************************************************************************)
ArtifactClasses == {"missing", "empty", "blank", "nomarker", "ok"}

GnmapCheckSizeOnly(g) == IF g \in {"missing", "empty"} THEN "ScanExecutionError" ELSE "ok"

GnmapCheck(g) ==
  IF g \in {"missing", "empty"} THEN "ScanExecutionError"
  ELSE IF g = "blank" \/ g = "nomarker" THEN "ScanExecutionError"
  ELSE "ok"

XmlCheckSkipped(x) == "ok"

XmlCheck(x) ==
  IF x \in {"missing", "empty"} THEN "ScanExecutionError"
  ELSE IF x = "blank" \/ x = "nomarker" THEN "ScanExecutionError"
  ELSE "ok"

ValidateScanResults(g, x) ==
  IF GnmapCheck(g) # "ok" THEN GnmapCheck(g) ELSE XmlCheck(x)

(***************************************************************************)
(* NetworkScanner.execute_nmap_scan after the artifacts were created: the  *)
(* retried tool invocation, the validation of what it emitted, and the     *)
(* handler that turns every exception into ScanExecutionError.  func is    *)
(* the behaviour of nmap_scan(), g and x what the tool left in the two     *)
(* output artifacts.                                                       *)
(***************************************************************************)
WrapLeak(e) == e

WrapScanError(e) == "ScanExecutionError"

\* the validation inside the retried function: a report that fails it makes
\* the tool run once more
ExecuteNmapScanRevalidates(func, g, x) ==
  LET r == RetryWithBackoff(func, MAX_RETRIES, NmapRetryable)
      v == ValidateScanResults(g, x)
  IN  IF r.status = "returned"
        THEN IF v = "ok"
               THEN [result |-> "returned", exc |-> "none", calls |-> r.calls,
                     sleeps |-> r.sleeps, validated |-> TRUE]
               ELSE [result |-> "raised", exc |-> WrapScanError(v), calls |-> r.calls + 1,
                     sleeps |-> r.sleeps, validated |-> TRUE]
        ELSE [result |-> "raised", exc |-> WrapScanError(r.exc), calls |-> r.calls,
              sleeps |-> r.sleeps, validated |-> FALSE]

ExecuteNmapScan(func, g, x) ==
  LET r == RetryWithBackoff(func, MAX_RETRIES, NmapRetryable)
      v == ValidateScanResults(g, x)
  IN  IF r.status = "returned"
        THEN IF v = "ok"
               THEN [result |-> "returned", exc |-> "none", calls |-> r.calls,
                     sleeps |-> r.sleeps, validated |-> TRUE]
               ELSE [result |-> "raised", exc |-> WrapScanError(v), calls |-> r.calls,
                     sleeps |-> r.sleeps, validated |-> TRUE]
        ELSE [result |-> "raised", exc |-> WrapScanError(r.exc), calls |-> r.calls,
              sleeps |-> r.sleeps, validated |-> FALSE]

(***************************************************************************)
(* NetworkScanner.detect_scan_method.  func is the behaviour of            *)
(* ping_test(), rtt the time= value of the probe output in milliseconds    *)
(* (NoTime when the output holds none).                                    *)
(***************************************************************************)
NoTime == 0 - 1
PingTimes == {0, 49, 50, 199, 200, 250}
PingOutputs == PingTimes \cup {NoTime}
Tiers == {"optimized", "verified", "conservative"}

\* the retried probe
DetectProbeLongBudget(func) == RetryWithBackoff(func, MAX_RETRIES, PingRetryable)

DetectProbe(func) == RetryWithBackoff(func, 2, PingRetryable)

DetectScanMethodInclusive(func, rtt) ==
  LET r == DetectProbe(func)
  IN  IF r.status = "raised" THEN "conservative"
      ELSE IF rtt = NoTime THEN "conservative"
      ELSE IF rtt <= 50 THEN "optimized"
      ELSE IF rtt <= 200 THEN "verified"
      ELSE "conservative"

DetectScanMethod(func, rtt) ==
  LET r == DetectProbe(func)
  IN  IF r.status = "raised" THEN "conservative"
      ELSE IF rtt = NoTime THEN "conservative"
      ELSE IF rtt < 50 THEN "optimized"
      ELSE IF rtt < 200 THEN "verified"
      ELSE "conservative"

\* what the tool can leave in an output artifact of a scan unit: the artifact
\* was created before the tool ran and nothing removes it before validation
ToolArtifacts == ArtifactClasses \ {"missing"}

\* the ways one execute_nmap_scan call can end: "returned", or the class of
\* the exception that leaves it
ExecResults ==
  {LET e == ExecuteNmapScan(func, g, x)
   IN  IF e.result = "returned" THEN "returned" ELSE e.exc :
     func \in NmapScripts, g \in ToolArtifacts, x \in ToolArtifacts}

\* the tiers detect_scan_method can return
DetectResults == {DetectScanMethod(func, rtt) : func \in PingScripts, rtt \in PingOutputs}

(***************************************************************************)
(* State.                                                                  *)
(*   Context 0 is the thread that called the scanner (it runs the single   *)
(*   network-set path itself); contexts 1..MaxNets are the scan units the  *)
(*   thread pool runs, unit u scanning networks[u].                        *)
(*   A temporary artifact is <<c, phase, kind>>: made by context c in the  *)
(*   execute_nmap_scan call of that phase; the merged pair is made by      *)
(*   MergeCtx.  An artifact pair is <<c, phase>>.                          *)
(***************************************************************************)
Workers == 1..MaxNets
Ctx == 0..MaxNets
MergeCtx == 0 - 1

Artifacts(c, ph) == {<<c, ph, "targets">>, <<c, ph, "gnmap">>, <<c, ph, "xml">>}
Outputs(c, ph) == {<<c, ph, "gnmap">>, <<c, ph, "xml">>}
PairFiles(pair) == Outputs(pair[1], pair[2])
MergedPair == <<MergeCtx, "merged">>

VARIABLES
  args_jobs,            \* args.jobs
  parallel_jobs,        \* NetworkScanner.parallel_jobs
  semaphore,            \* free slots of NetworkScanner.semaphore
  temp_files_registry,  \* NetworkScanner.temp_files_registry
  networks,             \* the list of specs: loaded, handed over, deduplicated
  requested,            \* history: normal forms of the specs handed to the scan
  unit,                 \* per context: position in scan_networks and its locals
  exists,               \* temporary artifacts on disk
  used,                 \* history: artifacts the tool or the merge has touched
  failed_networks,      \* scan_networks_granular: failed_networks
  gnmap_files,          \* scan_networks_granular: gnmap_files/xml_files, as pairs
  mainpc,               \* position of the calling thread
  submitted,            \* units handed to the pool so far
  collected,            \* units whose future the as_completed loop consumed
  batch,                \* history of the scan call: specs handed over, what was
                        \* logged, merged, raised
  scan_result,          \* what the scan call gave the run controller
  app_temp_files,       \* Segmentador.temp_files
  exit_code,            \* return value of Segmentador.run
  cleanups,             \* history: times Segmentador.cleanup ran
  fn_in, fn_out         \* argument and result of the helper under SpecRetry/SpecExec

vars == <<args_jobs, parallel_jobs, semaphore, temp_files_registry, networks, requested,
          unit, exists, used, failed_networks, gnmap_files, mainpc, submitted, collected,
          batch, scan_result, app_temp_files, exit_code, cleanups, fn_in, fn_out>>

scannerVars == <<args_jobs, parallel_jobs>>
fnVars == <<fn_in, fn_out>>
runVars == <<app_temp_files, exit_code, cleanups>>
poolVars == <<failed_networks, gnmap_files, submitted, collected, batch>>

\* hosts: what _extract_active_hosts found; err: the last exception caught or raised
IdleUnit == [pc |-> "idle", phase |-> "none", hosts |-> "unknown", ret |-> "none",
             err |-> "none"]

NoBatch == [handed |-> 0 - 1, warned |-> 0 - 1, merged |-> <<>>, raised |-> "none",
            xml |-> "none"]

NoRun == 0 - 1


(***************************************************************************)
(* Inputs.                                                                 *)
(***************************************************************************)
\* specs handed to the dispatcher: 10.0.0.0/24-like, the same block written
\* with host bits set, another block, and a range
NetPool == {Cidr(0, 2), Cidr(1, 2), Cidr(4, 2), IpRange(1, 3)}

\* lines of a network file
LinePool == {Blank, Comment, Cidr(0, 2), Cidr(4, 2), Cidr(2, NoPrefix), Cidr(1, 2),
             IpRange(1, 3)}

(***************************************************************************)
(* Initial states.                                                         *)
(***************************************************************************)
\* NetworkScanner.__init__ and the locals of a scan that has not started
ScannerInit(jobs) ==
  /\ args_jobs = jobs
  /\ parallel_jobs = Min(jobs, MAX_CONCURRENT_SCANS)
  /\ semaphore = Min(jobs, MAX_CONCURRENT_SCANS)
  /\ temp_files_registry = {}
  /\ unit = [c \in Ctx |-> IdleUnit]
  /\ exists = {}
  /\ used = {}
  /\ failed_networks = <<>>
  /\ gnmap_files = <<>>
  /\ submitted = 0
  /\ collected = {}
  /\ batch = NoBatch
  /\ scan_result = "none"
  /\ app_temp_files = {}
  /\ exit_code = NoRun
  /\ cleanups = 0

\* Segmentador.__init__ under main(): args.jobs was checked to be in 1..10
Init ==
  /\ \E jobs \in 1..MaxJobs : ScannerInit(jobs)
  /\ networks = <<>>
  /\ requested = {}
  /\ mainpc = "check"
  /\ fn_in = "none"
  /\ fn_out = "none"

\* a scanner and a call of scan_networks_granular(networks)
InitDispatch ==
  /\ \E jobs \in 1..MaxJobs : ScannerInit(jobs)
  /\ networks \in SeqsUpTo(NetPool, MaxNets)
  /\ requested = NormalForms(Range(networks))
  /\ mainpc = "granular"
  /\ fn_in = "none"
  /\ fn_out = "none"

(***************************************************************************)
(* One scan_networks call, run by context c.                               *)
(***************************************************************************)
\* the calling thread runs its own scan only while it is inside the call
Runs(c) == c = 0 => mainpc = "single"

\* the first execute_nmap_scan phase a tier leads to
TierPhase(tier) == IF tier = "verified" THEN "fast" ELSE "main"

\* a tier kept in one place for the whole scanner: every unit that has not yet
\* probed takes the tier another unit selected
SelectTierShared(units, c, tier) ==
  [d \in DOMAIN units |->
     IF d = c THEN [units[d] EXCEPT !.pc = "prepare", !.phase = TierPhase(tier)]
     ELSE IF units[d].pc \in {"queued", "gate", "detect"}
            THEN [units[d] EXCEPT !.phase = TierPhase(tier)]
            ELSE units[d]]

\* scan_method is a local of the scan_networks call of context c: the tier of
\* the call reaches that call's branch and nothing else
SelectTier(units, c, tier) ==
  [units EXCEPT ![c].pc = "prepare", ![c].phase = TierPhase(tier)]

\* scan_networks: detect_scan_method, then the branch on the tier; the two
\* single-pass tiers differ in the tool's arguments only and share phase "main"
Detect(c) ==
  /\ unit[c].pc = "detect"
  /\ Runs(c)
  /\ \E tier \in DetectResults : unit' = SelectTier(unit, c, tier)
  /\ UNCHANGED <<scannerVars, semaphore, temp_files_registry, networks, requested, exists,
                 used, mainpc, poolVars, scan_result, runVars, fnVars>>

\* register_temp_file calls of one execute_nmap_scan
RegisteredByExecNoXml(c, ph) == {<<c, ph, "targets">>, <<c, ph, "gnmap">>}

RegisteredByExec(c, ph) == {<<c, ph, "targets">>} \cup {<<c, ph, "gnmap">>, <<c, ph, "xml">>}

\* execute_nmap_scan, first half: the target list and the two output
\* artifacts are created and registered
PrepareArtifacts(c) ==
  /\ unit[c].pc = "prepare"
  /\ Runs(c)
  /\ exists' = exists \cup Artifacts(c, unit[c].phase)
  /\ temp_files_registry' = temp_files_registry \cup RegisteredByExec(c, unit[c].phase)
  /\ unit' = [unit EXCEPT ![c].pc = "run"]
  /\ UNCHANGED <<scannerVars, semaphore, networks, requested, used, mainpc, poolVars,
                 scan_result, runVars, fnVars>>

\* where scan_networks / _scan_with_verification go on after execute_nmap_scan
\* of phase ph ended with result res; active tells whether
\* _extract_active_hosts found a host in the discovery report
AfterExecNoFallback(u, ph, res, active) ==
  IF res = "returned"
    THEN IF ph = "main" THEN [u EXCEPT !.pc = "returned", !.ret = "main"]
         ELSE IF ph = "fast"
                THEN IF active
                       THEN [u EXCEPT !.pc = "prepare", !.phase = "slow", !.hosts = "some"]
                       ELSE [u EXCEPT !.pc = "returned", !.ret = "fast", !.hosts = "none"]
         ELSE [u EXCEPT !.pc = "returned", !.ret = "slow"]
    ELSE [u EXCEPT !.pc = "raised", !.err = res]

AfterExecAlwaysEscalates(u, ph, res, active) ==
  IF res = "returned"
    THEN IF ph = "main" THEN [u EXCEPT !.pc = "returned", !.ret = "main"]
         ELSE IF ph = "fast"
                THEN [u EXCEPT !.pc = "prepare", !.phase = "slow",
                               !.hosts = IF active THEN "some" ELSE "none"]
         ELSE [u EXCEPT !.pc = "returned", !.ret = "slow"]
    ELSE IF ph = "slow"
           THEN [u EXCEPT !.pc = "returned", !.ret = "fast", !.err = res]
           ELSE [u EXCEPT !.pc = "raised", !.err = res]

AfterExec(u, ph, res, active) ==
  IF res = "returned"
    THEN IF ph = "main" THEN [u EXCEPT !.pc = "returned", !.ret = "main"]
         ELSE IF ph = "fast"
                THEN IF active
                       THEN [u EXCEPT !.pc = "prepare", !.phase = "slow", !.hosts = "some"]
                       ELSE [u EXCEPT !.pc = "returned", !.ret = "fast", !.hosts = "none"]
         ELSE [u EXCEPT !.pc = "returned", !.ret = "slow"]
    ELSE IF ph = "slow"
           THEN [u EXCEPT !.pc = "returned", !.ret = "fast", !.err = res]
           ELSE [u EXCEPT !.pc = "raised", !.err = res]

\* _scan_with_verification: once the slow pass succeeded the discovery
\* outputs are unlinked
UnlinkFirst(c, ph, res) == IF ph = "slow" /\ res = "returned" THEN Outputs(c, "fast") ELSE {}

\* execute_nmap_scan, second half: the retried tool runs on the artifacts and
\* what it emitted is validated; then the caller's step up to its return or
\* its next execute_nmap_scan
RunNmap(c) ==
  /\ unit[c].pc = "run"
  /\ Runs(c)
  /\ \E res \in ExecResults :
       /\ \E active \in IF unit[c].phase = "fast" /\ res = "returned" THEN BOOLEAN ELSE {FALSE} :
            unit' = [unit EXCEPT ![c] = AfterExec(unit[c], unit[c].phase, res, active)]
       /\ exists' = exists \ UnlinkFirst(c, unit[c].phase, res)
  /\ used' = used \cup Artifacts(c, unit[c].phase)
  /\ UNCHANGED <<scannerVars, semaphore, temp_files_registry, networks, requested, mainpc,
                 poolVars, scan_result, runVars, fnVars>>

ScanStep(c) ==
  \/ Detect(c)
  \/ PrepareArtifacts(c)
  \/ RunNmap(c)


(***************************************************************************)
(* The thread pool and the scan units (scan_single_network).               *)
(***************************************************************************)
InFlight(u) == unit[u].pc \notin {"idle", "queued", "done"}
Holding(u) == unit[u].pc \notin {"idle", "queued", "gate", "done"}
PoolOpen == mainpc \in {"submit", "collect", "pool_abort"}

\* a pool thread takes the oldest queued unit; the pool has parallel_jobs threads
WorkerTake(u) ==
  /\ PoolOpen
  /\ unit[u].pc = "queued"
  /\ \A v \in Workers : v < u => unit[v].pc # "queued"
  /\ Cardinality({v \in Workers : InFlight(v)}) < parallel_jobs
  /\ unit' = [unit EXCEPT ![u].pc = "gate"]
  /\ UNCHANGED <<scannerVars, semaphore, temp_files_registry, networks, requested, exists,
                 used, mainpc, poolVars, scan_result, runVars, fnVars>>

\* with self.semaphore: entry
Acquire(u) ==
  /\ unit[u].pc = "gate"
  /\ semaphore > 0
  /\ semaphore' = semaphore - 1
  /\ unit' = [unit EXCEPT ![u].pc = "detect"]
  /\ UNCHANGED <<scannerVars, temp_files_registry, networks, requested, exists, used,
                 mainpc, poolVars, scan_result, runVars, fnVars>>

\* with self.semaphore: exit, on the return of the pair and on the return of None
SemaphoreExitLeak(sem, failed) == IF failed THEN sem ELSE sem + 1

SemaphoreExit(sem, failed) == sem + 1

\* scan_single_network ends: the pair is returned, or the except clause
\* appends the failed spec under failed_networks_lock and returns None; the
\* with block gives the slot back
Release(u) ==
  /\ unit[u].pc \in {"returned", "raised"}
  /\ failed_networks' = IF unit[u].pc = "raised" THEN Append(failed_networks, networks[u])
                        ELSE failed_networks
  /\ semaphore' = SemaphoreExit(semaphore, unit[u].pc = "raised")
  /\ unit' = [unit EXCEPT ![u].pc = "done", ![u].phase = "none"]
  /\ UNCHANGED <<scannerVars, temp_files_registry, networks, requested, exists, used,
                 mainpc, gnmap_files, submitted, collected, batch, scan_result, runVars,
                 fnVars>>

UnitStep(u) ==
  \/ WorkerTake(u)
  \/ Acquire(u)
  \/ ScanStep(u)
  \/ Release(u)

(***************************************************************************)
(* scan_networks_granular, on the calling thread.                          *)
(***************************************************************************)
\* the branch that sends a batch down the single network-set path
SinglePathNever(jobs, nets) == FALSE

SinglePath(jobs, nets) == jobs = 1 \/ Len(nets) <= 1

GranularEntry ==
  /\ mainpc = "granular"
  /\ IF SinglePath(parallel_jobs, networks)
       THEN /\ unit' = [unit EXCEPT ![0].pc = "detect"]
            /\ mainpc' = "single"
            /\ UNCHANGED networks
       ELSE /\ networks' = DeduplicateNetworks(networks)
            /\ mainpc' = "submit"
            /\ UNCHANGED unit
  /\ batch' = [batch EXCEPT !.handed = Len(networks)]
  /\ UNCHANGED <<scannerVars, semaphore, temp_files_registry, requested, exists, used,
                 failed_networks, gnmap_files, submitted, collected, scan_result, runVars,
                 fnVars>>

\* executor.submit, one unit per spec of the deduplicated list
Submit ==
  /\ mainpc = "submit"
  /\ submitted < Len(networks)
  /\ submitted' = submitted + 1
  /\ unit' = [unit EXCEPT ![submitted + 1].pc = "queued"]
  /\ mainpc' = IF submitted + 1 = Len(networks) THEN "collect" ELSE "submit"
  /\ UNCHANGED <<scannerVars, semaphore, temp_files_registry, networks, requested, exists,
                 used, failed_networks, gnmap_files, collected, batch, scan_result,
                 runVars, fnVars>>

\* as_completed: the result of a finished unit is consumed
CollectedPairsAll(files, u, ret) == Append(files, <<u, ret>>)

CollectedPairs(files, u, ret) == IF ret # "none" THEN Append(files, <<u, ret>>) ELSE files

\* the loop over as_completed is left on the first result
PoolJoinedOnFirst(done, nets) == done # {}

\* the loop over as_completed ends, and the with block of the pool is left,
\* when every submitted unit has handed over its result
PoolJoined(done, nets) == done = 1..Len(nets)

Collect(u) ==
  /\ mainpc = "collect"
  /\ unit[u].pc = "done"
  /\ u \notin collected
  /\ collected' = collected \cup {u}
  /\ gnmap_files' = CollectedPairs(gnmap_files, u, unit[u].ret)
  /\ mainpc' = IF PoolJoined(collected \cup {u}, networks) THEN "joined" ELSE "collect"
  /\ UNCHANGED <<scannerVars, semaphore, temp_files_registry, networks, requested, unit,
                 exists, used, failed_networks, submitted, batch, scan_result, runVars,
                 fnVars>>

\* after the pool: the failure count is logged; no pair at all raises
BatchFailsOnAnyFailure(pairs, failed) == failed # <<>>

BatchFails(pairs, failed) == pairs = <<>>

AfterPool ==
  /\ mainpc = "joined"
  /\ batch' = [batch EXCEPT
                 !.warned = IF failed_networks # <<>> THEN Len(failed_networks) ELSE @,
                 !.raised = IF BatchFails(gnmap_files, failed_networks)
                              THEN "ScanExecutionError" ELSE @]
  /\ mainpc' = IF BatchFails(gnmap_files, failed_networks) THEN "scan_raise" ELSE "merge"
  /\ UNCHANGED <<scannerVars, semaphore, temp_files_registry, networks, requested, unit,
                 exists, used, failed_networks, gnmap_files, submitted, collected,
                 scan_result, runVars, fnVars>>

\* _merge_scan_results: the two merged artifacts are created and registered
RegisteredByMergeNone == {}

RegisteredByMerge == Outputs(MergeCtx, "merged")

MergePrepare ==
  /\ mainpc = "merge"
  /\ exists' = exists \cup Outputs(MergeCtx, "merged")
  /\ temp_files_registry' = temp_files_registry \cup RegisteredByMerge
  /\ batch' = [batch EXCEPT !.merged = gnmap_files]
  /\ mainpc' = "merge_write"
  /\ UNCHANGED <<scannerVars, semaphore, networks, requested, unit, used, failed_networks,
                 gnmap_files, submitted, collected, scan_result, runVars, fnVars>>

\* _merge_scan_results: the reports are concatenated and the trees merged;
\* a failed tree merge leaves an empty tree; a failed write raises
MergeWrite ==
  /\ mainpc = "merge_write"
  /\ used' = used \cup Outputs(MergeCtx, "merged")
                  \cup UNION {PairFiles(gnmap_files[i]) : i \in 1..Len(gnmap_files)}
  /\ \E outcome \in {"merged", "empty_tree", "raised"} :
       IF outcome = "raised"
         THEN /\ batch' = [batch EXCEPT !.raised = "MergeError"]
              /\ mainpc' = "scan_raise"
              /\ UNCHANGED scan_result
         ELSE /\ batch' = [batch EXCEPT !.xml = outcome]
              /\ mainpc' = "scan_ret"
              /\ scan_result' = MergedPair
  /\ UNCHANGED <<scannerVars, semaphore, temp_files_registry, networks, requested, unit,
                 exists, failed_networks, gnmap_files, submitted, collected, runVars,
                 fnVars>>

\* the single network-set path: scan_networks ran on the calling thread
SingleReturn ==
  /\ mainpc = "single"
  /\ unit[0].pc \in {"returned", "raised"}
  /\ IF unit[0].pc = "returned"
       THEN /\ scan_result' = <<0, unit[0].ret>>
            /\ mainpc' = "scan_ret"
            /\ UNCHANGED batch
       ELSE /\ batch' = [batch EXCEPT !.raised = unit[0].err]
            /\ mainpc' = "scan_raise"
            /\ UNCHANGED scan_result
  /\ unit' = [unit EXCEPT ![0].pc = "done", ![0].phase = "none"]
  /\ UNCHANGED <<scannerVars, semaphore, temp_files_registry, networks, requested, exists,
                 used, failed_networks, gnmap_files, submitted, collected, runVars,
                 fnVars>>

DispatchStep ==
  \/ GranularEntry
  \/ Submit
  \/ \E u \in Workers : Collect(u)
  \/ AfterPool
  \/ MergePrepare
  \/ MergeWrite
  \/ SingleReturn

NextDispatch ==
  \/ DispatchStep
  \/ \E u \in Workers : UnitStep(u)
  \/ ScanStep(0)

SpecDispatch == InitDispatch /\ [][NextDispatch]_vars


(***************************************************************************)
(* Segmentador.run and main(): the run controller.                         *)
(***************************************************************************)
\* dependency_checker.check_all
DepCheck ==
  /\ mainpc = "check"
  /\ \E ok \in BOOLEAN :
       IF ok THEN mainpc' = "load" /\ UNCHANGED exit_code
             ELSE mainpc' = "exiting" /\ exit_code' = 1
  /\ UNCHANGED <<scannerVars, semaphore, temp_files_registry, networks, requested, unit,
                 exists, used, poolVars, scan_result, app_temp_files, cleanups, fnVars>>

\* _load_networks from a file; NetworkValidationError ends the run with 1
LoadNetworks ==
  /\ mainpc = "load"
  /\ \E lines \in SeqsUpTo(LinePool, MaxLines) :
       LET r == LoadFromFile(lines)
       IN  IF r.err = "none"
             THEN /\ networks' = r.nets
                  /\ requested' = NormalForms(Range(r.nets))
                  /\ mainpc' = "execute"
                  /\ UNCHANGED exit_code
             ELSE /\ mainpc' = "exiting"
                  /\ exit_code' = 1
                  /\ UNCHANGED <<networks, requested>>
  /\ UNCHANGED <<scannerVars, semaphore, temp_files_registry, unit, exists, used, poolVars,
                 scan_result, app_temp_files, cleanups, fnVars>>

\* _execute_scan: the branch on args.jobs
ExecuteScan ==
  /\ mainpc = "execute"
  /\ IF args_jobs > 1
       THEN /\ mainpc' = "granular"
            /\ UNCHANGED <<unit, batch>>
       ELSE /\ mainpc' = "single"
            /\ unit' = [unit EXCEPT ![0].pc = "detect"]
            /\ batch' = [batch EXCEPT !.handed = Len(networks)]
  /\ UNCHANGED <<scannerVars, semaphore, temp_files_registry, networks, requested, exists,
                 used, failed_networks, gnmap_files, submitted, collected, scan_result,
                 runVars, fnVars>>

\* _execute_scan: the returned pair goes to self.temp_files
ScanReturned ==
  /\ mainpc = "scan_ret"
  /\ app_temp_files' = app_temp_files \cup PairFiles(scan_result)
  /\ mainpc' = "process"
  /\ UNCHANGED <<scannerVars, semaphore, temp_files_registry, networks, requested, unit,
                 exists, used, poolVars, scan_result, exit_code, cleanups, fnVars>>

\* an exception of the scan reaches run's handler: return 1
ScanRaised ==
  /\ mainpc = "scan_raise"
  /\ exit_code' = 1
  /\ mainpc' = "exiting"
  /\ UNCHANGED <<scannerVars, semaphore, temp_files_registry, networks, requested, unit,
                 exists, used, poolVars, scan_result, app_temp_files, cleanups, fnVars>>

\* process_gnmap_file and _create_canonical_model; an unreadable report raises
ProcessResults ==
  /\ mainpc = "process"
  /\ \E ok \in BOOLEAN :
       IF ok THEN mainpc' = "export" /\ UNCHANGED exit_code
             ELSE mainpc' = "exiting" /\ exit_code' = 1
  /\ UNCHANGED <<scannerVars, semaphore, temp_files_registry, networks, requested, unit,
                 exists, used, poolVars, scan_result, app_temp_files, cleanups, fnVars>>

\* _display_results, _export_results (an ExportError is logged), summary: return 0
ExportResults ==
  /\ mainpc = "export"
  /\ \E outcome \in {"exported", "ExportError"} :
       /\ exit_code' = 0
       /\ mainpc' = "exiting"
  /\ UNCHANGED <<scannerVars, semaphore, temp_files_registry, networks, requested, unit,
                 exists, used, poolVars, scan_result, app_temp_files, cleanups, fnVars>>

\* positions of run() at which a KeyboardInterrupt can arrive
RunPositions == {"check", "load", "execute", "granular", "single", "submit", "collect",
                 "joined", "merge", "merge_write", "scan_ret", "scan_raise", "process",
                 "export"}

\* where the interrupted thread goes: out of the pool's with block only after
\* shutdown(wait=True) has joined the workers
AfterInterruptNoJoin(pc) == "exiting"

AfterInterrupt(pc) == IF pc \in {"submit", "collect"} THEN "pool_abort" ELSE "exiting"

\* KeyboardInterrupt in the main thread: run returns 130
Interrupt ==
  /\ mainpc \in RunPositions
  /\ exit_code = NoRun
  /\ exit_code' = 130
  /\ mainpc' = AfterInterrupt(mainpc)
  /\ UNCHANGED <<scannerVars, semaphore, temp_files_registry, networks, requested, unit,
                 exists, used, poolVars, scan_result, app_temp_files, cleanups, fnVars>>

\* ThreadPoolExecutor.__exit__ on the interrupt: every submitted unit has ended
PoolAbort ==
  /\ mainpc = "pool_abort"
  /\ \A u \in 1..submitted : unit[u].pc = "done"
  /\ mainpc' = "exiting"
  /\ UNCHANGED <<scannerVars, semaphore, temp_files_registry, networks, requested, unit,
                 exists, used, poolVars, scan_result, runVars, fnVars>>

\* cleanup_temp_files: every registered file is unlinked, the registry cleared
RegistryAfterCleanupKept(registry) == registry

RegistryAfterCleanup(registry) == {}

\* Segmentador.__exit__ -> cleanup
Cleanup ==
  /\ mainpc = "exiting"
  /\ exists' = (exists \ temp_files_registry) \ app_temp_files
  /\ temp_files_registry' = RegistryAfterCleanup(temp_files_registry)
  /\ cleanups' = cleanups + 1
  /\ mainpc' = "exit"
  /\ UNCHANGED <<scannerVars, semaphore, networks, requested, unit, used, poolVars,
                 scan_result, app_temp_files, exit_code, fnVars>>

RunStep ==
  \/ DepCheck
  \/ LoadNetworks
  \/ ExecuteScan
  \/ ScanReturned
  \/ ScanRaised
  \/ ProcessResults
  \/ ExportResults
  \/ Interrupt
  \/ PoolAbort
  \/ Cleanup

Next ==
  \/ RunStep
  \/ DispatchStep
  \/ \E u \in Workers : UnitStep(u)
  \/ ScanStep(0)

Spec == Init /\ [][Next]_vars

(***************************************************************************)
(* The helpers on their own.                                               *)
(***************************************************************************)
\* behaviours of the wrapped function, one outcome per call
AnyFuncs(n) == [1..n -> AnyOutcomes]
Funcs(n) == [1..n -> ToolOutcomes]

InitRetry ==
  /\ ScannerInit(1)
  /\ networks = <<>>
  /\ requested = {}
  /\ mainpc = "helper"
  /\ fn_in \in [func : AnyFuncs(MaxRetriesArg + 2), max_retries : 0..MaxRetriesArg,
                retryable : {NmapRetryable, PingRetryable}]
  /\ fn_out = "none"

ApplyRetry ==
  /\ mainpc = "helper"
  /\ mainpc' = "applied"
  /\ fn_out' = RetryWithBackoff(fn_in.func, fn_in.max_retries, fn_in.retryable)
  /\ UNCHANGED <<scannerVars, semaphore, temp_files_registry, networks, requested, unit,
                 exists, used, poolVars, scan_result, runVars, fn_in>>

NextRetry == ApplyRetry

SpecRetry == InitRetry /\ [][NextRetry]_vars

InitExec ==
  /\ ScannerInit(1)
  /\ networks = <<>>
  /\ requested = {}
  /\ mainpc = "helper"
  /\ \/ fn_in \in [call : {"execute_nmap_scan"}, func : Funcs(MAX_RETRIES + 2),
                   g : ArtifactClasses, x : ArtifactClasses]
     \/ fn_in \in [call : {"detect_scan_method"}, func : Funcs(4), rtt : PingOutputs]
  /\ fn_out = "none"

ApplyExec ==
  /\ mainpc = "helper"
  /\ mainpc' = "applied"
  /\ fn_in.call = "execute_nmap_scan"
  /\ fn_out' = ExecuteNmapScan(fn_in.func, fn_in.g, fn_in.x)
  /\ UNCHANGED <<scannerVars, semaphore, temp_files_registry, networks, requested, unit,
                 exists, used, poolVars, scan_result, runVars, fn_in>>

ApplyDetect ==
  /\ mainpc = "helper"
  /\ mainpc' = "applied"
  /\ fn_in.call = "detect_scan_method"
  /\ fn_out' = [tier |-> DetectScanMethod(fn_in.func, fn_in.rtt),
                probe |-> DetectProbe(fn_in.func)]
  /\ UNCHANGED <<scannerVars, semaphore, temp_files_registry, networks, requested, unit,
                 exists, used, poolVars, scan_result, runVars, fn_in>>

NextExec == ApplyExec \/ ApplyDetect

SpecExec == InitExec /\ [][NextExec]_vars


(***************************************************************************)
(* Properties of the parallel dispatcher (SpecDispatch).                   *)
(***************************************************************************)
Units == 1..Len(networks)
Holders == {u \in Workers : Holding(u)}
ParallelPath == mainpc = "submit" \/ submitted > 0
BatchOver == mainpc \in {"joined", "merge", "merge_write", "scan_ret", "scan_raise"}
Decided == mainpc \in {"merge", "merge_write", "scan_ret", "scan_raise"}
Succeeded == {u \in Units : unit[u].pc = "done" /\ unit[u].ret # "none"}
Failed == {u \in Units : unit[u].pc = "done" /\ unit[u].ret = "none"}
PairUnits == {gnmap_files[i][1] : i \in 1..Len(gnmap_files)}

\* C1: with J = min(jobs, 10), at most J units are inside their scan, the
\* gate counts exactly the units inside their scan (a slot is taken before
\* the scan starts and given back when it ends, by return or by failure), and
\* once the batch is over all J slots are free.
C1_GateBound ==
  /\ parallel_jobs = Min(args_jobs, MAX_CONCURRENT_SCANS)
  /\ Cardinality(Holders) <= parallel_jobs
  /\ semaphore = parallel_jobs - Cardinality(Holders)
  /\ (ParallelPath /\ BatchOver) => semaphore = parallel_jobs

\* a batch of more units than slots is over, with failures and successes
C1_Witness ==
  /\ mainpc = "joined"
  /\ Len(networks) > parallel_jobs
  /\ failed_networks # <<>>
  /\ gnmap_files # <<>>
  /\ semaphore = parallel_jobs

C3_AsStated ==
  mainpc # "granular" =>
    /\ Len(networks) = Cardinality(requested)
    /\ BatchOver => Cardinality({c \in Ctx : unit[c].pc = "done"}) = Len(networks)

\* C3: with J >= 2 and a list of at least two specs the dispatcher
\* deduplicates by normal form and runs one unit per distinct spec, every
\* unit to its end, failed specs recorded; with J = 1 or a list of at most
\* one spec the list goes, as it is, to one scan on the calling thread, no
\* unit is dispatched and nothing is recorded as failed.
C3_DedupThenOnePerSpec ==
  /\ ParallelPath =>
       /\ parallel_jobs >= 2
       /\ batch.handed >= 2
       /\ unit[0].pc = "idle"
       /\ Len(networks) = Cardinality(requested)
       /\ Range(networks) = requested
       /\ \A u \in Workers \ Units : unit[u].pc = "idle"
       /\ BatchOver =>
            /\ \A u \in Units : unit[u].pc = "done"
            /\ \A u \in Failed : networks[u] \in Range(failed_networks)
  /\ unit[0].pc # "idle" =>
       /\ parallel_jobs = 1 \/ batch.handed <= 1
       /\ Len(networks) = batch.handed
       /\ NormalForms(Range(networks)) = requested
       /\ \A u \in Workers : unit[u].pc = "idle"
       /\ failed_networks = <<>>
       /\ submitted = 0

\* a list with a repeated block went through the pool as two units, one failed
C3_Witness ==
  /\ mainpc = "joined"
  /\ batch.handed = 3
  /\ Len(networks) = 2
  /\ Len(failed_networks) = 1
  /\ Len(gnmap_files) = 1

\* C4: in a parallel batch no spec is in a collection twice or in both; a
\* unit that a pool thread took can always take its next step, whatever its
\* siblings did; when the batch is over every unit has ended and
\* successes + failures = dispatched specs.
C4_ExactlyOnce ==
  ParallelPath =>
    /\ \A i, j \in 1..Len(gnmap_files) : gnmap_files[i][1] = gnmap_files[j][1] => i = j
    /\ \A i, j \in 1..Len(failed_networks) : failed_networks[i] = failed_networks[j] => i = j
    /\ \A u \in PairUnits : networks[u] \notin Range(failed_networks)
    /\ \A u \in Units : InFlight(u) => ENABLED UnitStep(u)
    /\ BatchOver =>
         /\ Len(gnmap_files) + Len(failed_networks) = Len(networks)
         /\ \A u \in Units : /\ unit[u].pc = "done"
                             /\ u \in PairUnits \/ networks[u] \in Range(failed_networks)

\* the first unit failed and both of its siblings completed after it
C4_Witness ==
  /\ mainpc = "joined"
  /\ Len(networks) = 3
  /\ failed_networks = <<networks[1]>>
  /\ PairUnits = {2, 3}

(***************************************************************************)
(* Properties of retry_with_backoff (SpecRetry).                           *)
(***************************************************************************)
Applied == mainpc = "applied"

\* the first call that does not fail with a retryable error (Len + 1: none)
FirstStop(func, retryable) ==
  CHOOSE i \in 1..(Len(func) + 1) :
    /\ i = Len(func) + 1 \/ func[i] \notin retryable
    /\ \A j \in 1..(i - 1) : func[j] \in retryable

\* C5: the function is called at most max_retries + 1 times; k retryable
\* failures (k <= max_retries) followed by a success give the success after
\* k + 1 calls and k sleeps; max_retries + 1 retryable failures give
\* max_retries sleeps and the last error raised.
C5_RetryBudget ==
  Applied =>
    LET i == FirstStop(fn_in.func, fn_in.retryable)
        m == fn_in.max_retries
    IN  /\ fn_out.calls <= m + 1
        /\ (i <= m + 1 /\ fn_in.func[i] = "ok") =>
             /\ fn_out.status = "returned"
             /\ fn_out.calls = i
             /\ Len(fn_out.sleeps) = i - 1
        /\ i > m + 1 =>
             /\ fn_out.status = "raised"
             /\ fn_out.exc = fn_in.func[m + 1]
             /\ fn_out.calls = m + 1
             /\ Len(fn_out.sleeps) = m

\* two retryable failures, then success, under max_retries = 3
C5_Witness ==
  /\ Applied
  /\ fn_in.max_retries = 3
  /\ fn_in.func[1] = "RetryableError" /\ fn_in.func[2] = "RetryableError"
  /\ fn_in.func[3] = "ok"
  /\ fn_out.status = "returned"
  /\ Len(fn_out.sleeps) = 2

\* C6: an error outside the retryable classes is raised at once: the call
\* that raised it is the last one and no sleep follows it, whatever budget
\* is left.
C6_NonRetryableImmediate ==
  Applied =>
    LET i == FirstStop(fn_in.func, fn_in.retryable)
        m == fn_in.max_retries
    IN  (i <= m + 1 /\ fn_in.func[i] # "ok") =>
          /\ fn_out.status = "raised"
          /\ fn_out.exc = fn_in.func[i]
          /\ fn_out.calls = i
          /\ Len(fn_out.sleeps) = i - 1

\* a timeout, which the probe's classes do not hold, on the second call with
\* budget left
C6_Witness ==
  /\ Applied
  /\ fn_in.retryable = PingRetryable
  /\ fn_in.max_retries = 3
  /\ fn_in.func[1] = "CalledProcessError"
  /\ fn_in.func[2] = "TimeoutExpired"
  /\ fn_out.status = "raised"
  /\ fn_out.calls = 2

(***************************************************************************)
(* Properties of execute_nmap_scan and detect_scan_method (SpecExec).      *)
(***************************************************************************)
ToolExitedZero ==
  /\ fn_in.call = "execute_nmap_scan"
  /\ RetryWithBackoff(fn_in.func, MAX_RETRIES, NmapRetryable).status = "returned"

C8_ValidationAfterZeroExit ==
  (Applied /\ ToolExitedZero) =>
    /\ (fn_in.g \in {"missing", "empty", "nomarker"} \/ fn_in.x \in {"missing", "empty", "nomarker"})
         => (fn_out.result = "raised" /\ fn_out.exc = "ScanExecutionError")
    /\ fn_out.result = "returned" <=> (fn_in.g = "ok" /\ fn_in.x = "ok")

\* the tool exited with zero at once and left a report without 'Nmap done'
C8_Witness ==
  /\ Applied
  /\ ToolExitedZero
  /\ fn_in.func[1] = "ok"
  /\ fn_in.g = "nomarker"
  /\ fn_in.x = "ok"
  /\ fn_out.result = "raised"

SlowTouched(c) == Artifacts(c, "slow") \cap (exists \cup used \cup temp_files_registry)

\* C11: when the discovery report holds no active host the scan returns the
\* discovery pair, both of its artifacts still in place, and no slow
\* execution is ever started for it.
C11_NoHostsNoEscalation ==
  \A c \in Ctx :
    unit[c].hosts = "none" =>
      /\ unit[c].pc \in {"returned", "done"}
      /\ unit[c].ret = "fast"
      /\ unit[c].err = "none"
      /\ Outputs(c, "fast") \subseteq exists
      /\ SlowTouched(c) = {}

\* a unit of the pool ended on a discovery report without hosts
C11_Witness ==
  /\ mainpc = "joined"
  /\ \E u \in Units : unit[u].hosts = "none" /\ <<u, "fast">> \in Range(gnmap_files)

\* C12: when the discovery pass succeeded and the slow pass failed, the scan
\* does not raise: it returns the discovery pair, whose two artifacts are
\* still in place.
C12_SlowFailureFallsBack ==
  \A c \in Ctx :
    /\ (unit[c].hosts = "some" /\ unit[c].err # "none") =>
         /\ unit[c].pc \in {"returned", "done"}
         /\ unit[c].ret = "fast"
         /\ Outputs(c, "fast") \subseteq exists
         /\ Artifacts(c, "slow") \subseteq used
    /\ unit[c].pc = "raised" => unit[c].hosts = "unknown"

\* the slow pass of a unit failed and its discovery pair reached the merge
C12_Witness ==
  /\ mainpc = "merge_write"
  /\ \E u \in Units : /\ unit[u].hosts = "some"
                      /\ unit[u].err = "ScanExecutionError"
                      /\ <<u, "fast">> \in Range(batch.merged)

(***************************************************************************)
(* Properties of detect_scan_method (SpecExec).                            *)
(***************************************************************************)
ProbeApplied == Applied /\ fn_in.call = "detect_scan_method"

\* C13: when the probe returned and its output holds a round-trip time, the
\* tier is optimized iff RTT < 50, verified iff 50 <= RTT < 200 and
\* conservative iff RTT >= 200.
C13_Thresholds ==
  (ProbeApplied /\ fn_out.probe.status = "returned" /\ fn_in.rtt # NoTime) =>
    /\ fn_out.tier = "optimized" <=> fn_in.rtt < 50
    /\ fn_out.tier = "verified" <=> (50 <= fn_in.rtt /\ fn_in.rtt < 200)
    /\ fn_out.tier = "conservative" <=> fn_in.rtt >= 200

\* the probe returned on its second attempt with a round-trip time of 50
C13_Witness ==
  /\ ProbeApplied
  /\ fn_out.probe.status = "returned"
  /\ fn_out.probe.calls = 2
  /\ fn_in.rtt = 50
  /\ fn_out.tier = "verified"

\* C14: the probe is attempted at most 3 times and the call always returns a
\* tier; it returns conservative when the probe raised, whatever it raised,
\* and when its output holds no round-trip time.
C14_ProbeNeverRaises ==
  ProbeApplied =>
    /\ fn_out.probe.calls <= 3
    /\ fn_out.tier \in Tiers
    /\ fn_out.probe.status = "raised" => fn_out.tier = "conservative"
    /\ fn_in.rtt = NoTime => fn_out.tier = "conservative"

\* three failed attempts of the probe
C14_Witness ==
  /\ ProbeApplied
  /\ \A i \in 1..3 : fn_in.func[i] = "RetryableError"
  /\ fn_out.probe.calls = 3
  /\ fn_out.probe.status = "raised"
  /\ fn_out.tier = "conservative"

(***************************************************************************)
(* Scan data: ScanResult, ServiceInfo, AuditStats, the gnmap parser and    *)
(* the canonical model builder.                                            *)
(*                                                                         *)
(* An address is a number of AddrBits bits; its last bit is the host part, *)
(* as the last octet is under /24, and a segment is named by its network   *)
(* address.                                                                *)
(***************************************************************************)
Addrs == 0..(Pow(2, AddrBits) - 1)

\* PORT_CONFIG, restricted to the ports of the model
PORT_CONFIG ==
  (22 :> [service |-> "SSH", category |-> "ADMINISTRACION"]) @@
  (80 :> [service |-> "HTTP", category |-> "WEB_SERVICES"])

\* a port with no entry in PORT_CONFIG
UnlistedPort == 9999

PortPool == (DOMAIN PORT_CONFIG) \cup {UnlistedPort}

ScanResult(ip, ports, segment) == [ip |-> ip, ports |-> ports, segment |-> segment]

ServiceInfo(ip, port, service, category, segment) ==
  [ip |-> ip, port |-> port, service |-> service, category |-> category, segment |-> segment]

\* the __eq__ that @dataclass generates: the tuples of all fields are compared,
\* and two lists are equal when they hold the same items in the same order
ScanResultEq(a, b) == a.ip = b.ip /\ a.ports = b.ports /\ a.segment = b.segment

\* ScanResult.__hash__: (ip, tuple(sorted(ports)), segment)
ScanResultHash(a) == <<a.ip, SortSeq(a.ports, LAMBDA x, y : x < y), a.segment>>

\* the generated __eq__ of ServiceInfo: all five fields
ServiceInfoEq(a, b) ==
  /\ a.ip = b.ip
  /\ a.port = b.port
  /\ a.service = b.service
  /\ a.category = b.category
  /\ a.segment = b.segment

\* ServiceInfo.__hash__: (ip, port, segment)
ServiceInfoHash(a) == <<a.ip, a.port, a.segment>>

\* set(scan_results): an item is added unless the set holds an item of the same
\* hash that is equal to it.  The result lists the kept items in insertion
\* order; list(set(...)) is one of its orderings.
RECURSIVE SetOfResults(_, _)
SetOfResults(scan_results, kept) ==
  IF scan_results = <<>> THEN kept
  ELSE LET x == Head(scan_results)
       IN  IF \E k \in Range(kept) : ScanResultHash(k) = ScanResultHash(x) /\ ScanResultEq(k, x)
             THEN SetOfResults(Tail(scan_results), kept)
             ELSE SetOfResults(Tail(scan_results), Append(kept, x))

RECURSIVE SetOfServices(_, _)
SetOfServices(service_info, kept) ==
  IF service_info = <<>> THEN kept
  ELSE LET x == Head(service_info)
       IN  IF \E k \in Range(kept) : ServiceInfoHash(k) = ServiceInfoHash(x) /\ ServiceInfoEq(k, x)
             THEN SetOfServices(Tail(service_info), kept)
             ELSE SetOfServices(Tail(service_info), Append(kept, x))

\* the orders in which list(set(...)) may list the items kept
Orders(kept) ==
  {[i \in 1..Len(kept) |-> kept[p[i]]] :
     p \in {q \in [1..Len(kept) -> 1..Len(kept)] : \A i, j \in 1..Len(kept) : q[i] = q[j] => i = j}}

(***************************************************************************)
(* The gnmap parser.  A line of a gnmap file is a record:                  *)
(*   kind "host_ports"  : "Host: <ip> ()  Ports: <entries>  Ignored ..."   *)
(*   kind "host_status" : "Host: <ip> ()  Status: Up" (no ports clause)    *)
(*   kind "comment"     : "# Nmap ..." (no host)                           *)
(* and a port entry "<port>/<state>/tcp//..." is [port, state].            *)
(***************************************************************************)
PortStates == {"open", "closed", "filtered", "open|filtered"}

PortEntry(port, state) == [port |-> port, state |-> state]

HostPorts(ip, entries) == [kind |-> "host_ports", ip |-> ip, entries |-> entries]
HostStatus(ip) == [kind |-> "host_status", ip |-> ip, entries |-> <<>>]
CommentLine == [kind |-> "comment", ip |-> 0, entries |-> <<>>]

\* the None of _parse_gnmap_line
NoResult == [ip |-> 0 - 1, ports |-> <<>>, segment |-> 0 - 1]

\* str(ipaddress.ip_network(f"{ip}/24", strict=False))
Segment24(ip) == MaskAddr(ip, AddrBits - 1)

\* the default record for every port, the table never consulted
PortInfoNoTable(port) == [service |-> "Unknown", category |-> "OTROS"]

\* PORT_CONFIG.get(port, {"service": "Unknown", "category": "OTROS"})
PortInfo(port) ==
  IF port \in DOMAIN PORT_CONFIG THEN PORT_CONFIG[port]
  ELSE [service |-> "Unknown", category |-> "OTROS"]

EntryAnyState(port_entry) == port_entry.state \in PortStates

\* '/open/' in port_entry, and (\d+)/open/ matches
EntryOpen(port_entry) == port_entry.state = "open"

RECURSIVE ParsePorts(_, _, _, _, _)
ParsePorts(entries, ip, segment, open_ports, services) ==
  IF entries = <<>> THEN [open_ports |-> open_ports, services |-> services]
  ELSE LET port_entry == Head(entries)
           port == port_entry.port
           port_info == PortInfo(port)
       IN  IF EntryOpen(port_entry)
             THEN ParsePorts(Tail(entries), ip, segment, Append(open_ports, port),
                             Append(services, ServiceInfo(ip, port, port_info.service,
                                                          port_info.category, segment)))
             ELSE ParsePorts(Tail(entries), ip, segment, open_ports, services)

\* _parse_gnmap_line: (ScanResult, services) or (None, [])
ParseGnmapLine(line) ==
  IF line.kind = "comment" THEN [result |-> NoResult, services |-> <<>>]
  ELSE IF line.kind = "host_status" THEN [result |-> NoResult, services |-> <<>>]
  ELSE LET segment == Segment24(line.ip)
           p == ParsePorts(line.entries, line.ip, segment, <<>>, <<>>)
       IN  IF p.open_ports # <<>>
             THEN [result |-> ScanResult(line.ip, p.open_ports, segment), services |-> p.services]
             ELSE [result |-> NoResult, services |-> <<>>]

\* a port number of more digits than int() converts: int(port_match.group(1))
\* raises ValueError
OverlongPort == 0 - 2

\* _parse_gnmap_line raises on the line: the conversion of the port of an
\* open entry fails, whatever the entries before it gave
ParseLineRaises(line) ==
  \E i \in DOMAIN line.entries :
    EntryOpen(line.entries[i]) /\ line.entries[i].port = OverlongPort

\* the error of one line ends the loop
AfterLineErrorAbort(rest) == <<>>

\* except Exception: log, continue; the lines the loop goes on with
AfterLineError(rest) == rest

\* the loop of process_gnmap_file over the lines of the file
RECURSIVE ProcessLines(_, _, _)
ProcessLines(lines, scan_results, service_info) ==
  IF lines = <<>> THEN [scan_results |-> scan_results, service_info |-> service_info]
  ELSE LET line == Head(lines)
       IN  IF line.kind = "host_ports"
             THEN IF ParseLineRaises(line)
                    THEN ProcessLines(AfterLineError(Tail(lines)), scan_results, service_info)
                    ELSE LET r == ParseGnmapLine(line)
                         IN  IF r.result # NoResult
                               THEN ProcessLines(Tail(lines), Append(scan_results, r.result),
                                                 service_info \o r.services)
                               ELSE ProcessLines(Tail(lines), scan_results, service_info)
             ELSE ProcessLines(Tail(lines), scan_results, service_info)

\* process_gnmap_file: the items that set() keeps of both lists
ProcessGnmapFile(lines) ==
  LET r == ProcessLines(lines, <<>>, <<>>)
  IN  [unique_results |-> SetOfResults(r.scan_results, <<>>),
       unique_services |-> SetOfServices(r.service_info, <<>>)]

(***************************************************************************)
(* CanonicalScanData.from_results and AuditStats.activity_rate.            *)
(***************************************************************************)
\* a dict with no key
EmptyDict == [k \in {} |-> <<>>]

\* the loops of from_results: d[key].append(item), the key created on first use
RECURSIVE GroupBySegmentFirstKey(_, _)
GroupBySegmentFirstKey(unique_results, segments) ==
  IF unique_results = <<>> THEN segments
  ELSE LET result == Head(unique_results)
           key == IF DOMAIN segments = {} THEN result.segment
                  ELSE CHOOSE k \in DOMAIN segments : TRUE
           d == IF key \notin DOMAIN segments THEN segments @@ (key :> <<>>) ELSE segments
       IN  GroupBySegmentFirstKey(Tail(unique_results), [d EXCEPT ![key] = Append(@, result)])

RECURSIVE GroupBySegment(_, _)
GroupBySegment(unique_results, segments) ==
  IF unique_results = <<>> THEN segments
  ELSE LET result == Head(unique_results)
           d == IF result.segment \notin DOMAIN segments
                  THEN segments @@ (result.segment :> <<>>) ELSE segments
       IN  GroupBySegment(Tail(unique_results), [d EXCEPT ![result.segment] = Append(@, result)])

RECURSIVE GroupByCategory(_, _)
GroupByCategory(unique_services, services_by_category) ==
  IF unique_services = <<>> THEN services_by_category
  ELSE LET service == Head(unique_services)
           d == IF service.category \notin DOMAIN services_by_category
                  THEN services_by_category @@ (service.category :> <<>>)
                  ELSE services_by_category
       IN  GroupByCategory(Tail(unique_services), [d EXCEPT ![service.category] = Append(@, service)])

RECURSIVE GroupByIp(_, _)
GroupByIp(unique_services, services_by_ip) ==
  IF unique_services = <<>> THEN services_by_ip
  ELSE LET service == Head(unique_services)
           d == IF service.ip \notin DOMAIN services_by_ip
                  THEN services_by_ip @@ (service.ip :> <<>>) ELSE services_by_ip
       IN  GroupByIp(Tail(unique_services), [d EXCEPT ![service.ip] = Append(@, service)])

\* from_results, given the orders in which the two sets were listed
FromResults(unique_results, unique_services, stats) ==
  [segments |-> GroupBySegment(unique_results, EmptyDict),
   services_by_category |-> GroupByCategory(unique_services, EmptyDict),
   services_by_ip |-> GroupByIp(unique_services, EmptyDict),
   all_services |-> unique_services,
   stats |-> stats]

AuditStats(total_segments, active_segments) ==
  [total_segments |-> total_segments, active_segments |-> active_segments]

\* a float as a fraction; a division by zero raises
TrueDiv(a, b) ==
  IF b = 0 THEN [status |-> "ZeroDivisionError", num |-> 0, den |-> 1]
  ELSE [status |-> "returned", num |-> a, den |-> b]

Times(q, n) == [q EXCEPT !.num = @ * n]

ActivityRateUnguarded(stats) == Times(TrueDiv(stats.active_segments, stats.total_segments), 100)

\* AuditStats.activity_rate
ActivityRate(stats) ==
  IF stats.total_segments > 0
    THEN Times(TrueDiv(stats.active_segments, stats.total_segments), 100)
    ELSE [status |-> "returned", num |-> 0, den |-> 1]

(***************************************************************************)
(* The scan data functions on their own.                                   *)
(***************************************************************************)
(***************************************************************************)
(* The second pass of _scan_with_verification.                             *)
(***************************************************************************)
StateAny(state) == state \in PortStates

\* 'open' in the text of a port state
StateHasOpen(state) == state \in {"open", "open|filtered"}

\* 'open' in line and line.startswith('Host:'): with -n the host name of a
\* line is empty, so the word can only stand in the state of a port entry
LineReportsOpen(line) ==
  /\ line.kind # "comment"
  /\ \E i \in DOMAIN line.entries : StateHasOpen(line.entries[i].state)

\* _extract_active_hosts: the addresses added to the set, in the order added
RECURSIVE ExtractActiveHosts(_, _)
ExtractActiveHosts(lines, active_hosts) ==
  IF lines = <<>> THEN active_hosts
  ELSE IF LineReportsOpen(Head(lines)) /\ Head(lines).ip \notin Range(active_hosts)
         THEN ExtractActiveHosts(Tail(lines), Append(active_hosts, Head(lines).ip))
         ELSE ExtractActiveHosts(Tail(lines), active_hosts)

\* what _scan_with_verification does after the discovery pass returned:
\* the call of execute_nmap_scan it makes, if any
SecondPass(nets, active_hosts) ==
  IF active_hosts = <<>>
    THEN [run |-> FALSE, targets |-> <<>>, scan_type |-> "none"]
    ELSE [run |-> TRUE, targets |-> active_hosts, scan_type |-> "verified_slow"]

PortEntries == [port : PortPool, state : PortStates]

\* lines of the report of a discovery pass (-sS: a port is open, closed or
\* filtered)
DiscoveryLines ==
  {HostPorts(ip, entries) :
     ip \in {0, 1},
     entries \in {<<PortEntry(22, "open")>>, <<PortEntry(80, "closed")>>,
                  <<PortEntry(22, "filtered"), PortEntry(80, "open")>>}}
    \cup {HostStatus(0), HostStatus(1), CommentLine}

GnmapLines ==
  {HostPorts(ip, entries) : ip \in Addrs, entries \in SeqsUpTo(PortEntries, MaxPortEntries)}
    \cup {HostStatus(ip) : ip \in Addrs} \cup {CommentLine}

\* lines of a file: two hosts of different segments, the same open ports in
\* both orders, entries that are not open, a status line, a line whose parse
\* raises after an open entry
FileLines ==
  {HostPorts(ip, entries) :
     ip \in {0, Pow(2, AddrBits) - 1},
     entries \in {<<PortEntry(22, "open"), PortEntry(80, "open")>>,
                  <<PortEntry(80, "open"), PortEntry(22, "open")>>,
                  <<PortEntry(22, "open"), PortEntry(80, "closed")>>,
                  <<PortEntry(80, "filtered")>>}}
    \cup {HostStatus(0)}
    \cup {HostPorts(1, <<PortEntry(80, "open"), PortEntry(OverlongPort, "open")>>)}

ResultPool ==
  {ScanResult(0, <<22, 80>>, 0), ScanResult(0, <<80, 22>>, 0),
   ScanResult(1, <<22>>, 0), ScanResult(2, <<80>>, 2)}

ServicePool ==
  {ServiceInfo(0, 80, "HTTP", "WEB_SERVICES", 0), ServiceInfo(0, 80, "Unknown", "OTROS", 0),
   ServiceInfo(0, 22, "SSH", "ADMINISTRACION", 0), ServiceInfo(2, 80, "HTTP", "WEB_SERVICES", 2)}

StatsPool == [total_segments : 0..MaxNets, active_segments : 0..MaxNets]

\* the prefix length of a /24 segment in the address space of the model
SegmentPrefix == AddrBits - 1

\* the address lies in the network of the CIDR spec
Covers(n, ip) == MaskAddr(ip, n.p) = n.a

\* lists of loaded specs: one segment, two segments, one network of two segments
LoadedPool ==
  {<<Cidr(0, SegmentPrefix)>>, <<Cidr(0, SegmentPrefix), Cidr(2, SegmentPrefix)>>,
   <<Cidr(0, SegmentPrefix - 1)>>}

\* what the parser hands back for a host with port 22 open
HostResults == {ScanResult(ip, <<22>>, Segment24(ip)) : ip \in 0..3}

\* the services the parser hands back with the results
ServicesOf(scan_results) ==
  [i \in DOMAIN scan_results |->
     ServiceInfo(scan_results[i].ip, 22, PortInfo(22).service, PortInfo(22).category,
                 scan_results[i].segment)]

\* run and _create_canonical_model: total_segments is the number of loaded
\* specs, active_segments the number of distinct segments of the results
RunStats(loaded, scan_results) ==
  AuditStats(Len(loaded),
             Cardinality({scan_results[i].segment : i \in DOMAIN scan_results}))

InitData ==
  /\ ScannerInit(1)
  /\ networks = <<>>
  /\ requested = {}
  /\ mainpc = "helper"
  /\ \/ fn_in \in [call : {"_parse_gnmap_line"}, line : GnmapLines]
     \/ fn_in \in [call : {"process_gnmap_file"}, lines : SeqsUpTo(FileLines, MaxHostLines)]
     \/ fn_in \in [call : {"from_results"}, scan_results : SeqsUpTo(ResultPool, MaxRecords),
                   service_info : SeqsUpTo(ServicePool, MaxRecords),
                   stats : {AuditStats(0, 0), AuditStats(MaxNets, 1)}]
     \/ fn_in \in [call : {"activity_rate"}, stats : StatsPool]
     \/ fn_in \in [call : {"_scan_with_verification"},
                   networks : {<<Cidr(0, 2)>>, <<Cidr(0, 2), IpRange(1, 3)>>},
                   lines : SeqsUpTo(DiscoveryLines, MaxHostLines)]
     \/ /\ fn_in \in [call : {"_create_canonical_model"}, networks : LoadedPool,
                      scan_results : SeqsUpTo(HostResults, MaxRecords)]
        /\ \A i \in DOMAIN fn_in.scan_results :
             \E k \in DOMAIN fn_in.networks : Covers(fn_in.networks[k], fn_in.scan_results[i].ip)
  /\ fn_out = "none"

ApplyParseLine ==
  /\ mainpc = "helper"
  /\ mainpc' = "applied"
  /\ fn_in.call = "_parse_gnmap_line"
  /\ fn_out' = ParseGnmapLine(fn_in.line)
  /\ UNCHANGED <<scannerVars, semaphore, temp_files_registry, networks, requested, unit,
                 exists, used, poolVars, scan_result, runVars, fn_in>>

ApplyProcessFile ==
  /\ mainpc = "helper"
  /\ mainpc' = "applied"
  /\ fn_in.call = "process_gnmap_file"
  /\ LET kept == ProcessGnmapFile(fn_in.lines)
     IN  \E unique_results \in Orders(kept.unique_results),
            unique_services \in Orders(kept.unique_services) :
           fn_out' = [unique_results |-> unique_results, unique_services |-> unique_services]
  /\ UNCHANGED <<scannerVars, semaphore, temp_files_registry, networks, requested, unit,
                 exists, used, poolVars, scan_result, runVars, fn_in>>

ApplyFromResults ==
  /\ mainpc = "helper"
  /\ mainpc' = "applied"
  /\ fn_in.call = "from_results"
  /\ \E unique_results \in Orders(SetOfResults(fn_in.scan_results, <<>>)),
        unique_services \in Orders(SetOfServices(fn_in.service_info, <<>>)) :
       fn_out' = FromResults(unique_results, unique_services, fn_in.stats)
  /\ UNCHANGED <<scannerVars, semaphore, temp_files_registry, networks, requested, unit,
                 exists, used, poolVars, scan_result, runVars, fn_in>>

ApplyActivityRate ==
  /\ mainpc = "helper"
  /\ mainpc' = "applied"
  /\ fn_in.call = "activity_rate"
  /\ fn_out' = ActivityRate(fn_in.stats)
  /\ UNCHANGED <<scannerVars, semaphore, temp_files_registry, networks, requested, unit,
                 exists, used, poolVars, scan_result, runVars, fn_in>>

ApplySecondPass ==
  /\ mainpc = "helper"
  /\ mainpc' = "applied"
  /\ fn_in.call = "_scan_with_verification"
  /\ \E active_hosts \in Orders(ExtractActiveHosts(fn_in.lines, <<>>)) :
       fn_out' = SecondPass(fn_in.networks, active_hosts)
  /\ UNCHANGED <<scannerVars, semaphore, temp_files_registry, networks, requested, unit,
                 exists, used, poolVars, scan_result, runVars, fn_in>>

ApplyCreateModel ==
  /\ mainpc = "helper"
  /\ mainpc' = "applied"
  /\ fn_in.call = "_create_canonical_model"
  /\ LET service_info == ServicesOf(fn_in.scan_results)
         stats == RunStats(fn_in.networks, fn_in.scan_results)
     IN  \E unique_results \in Orders(SetOfResults(fn_in.scan_results, <<>>)),
            unique_services \in Orders(SetOfServices(service_info, <<>>)) :
           fn_out' = FromResults(unique_results, unique_services, stats)
  /\ UNCHANGED <<scannerVars, semaphore, temp_files_registry, networks, requested, unit,
                 exists, used, poolVars, scan_result, runVars, fn_in>>

NextData ==
  \/ ApplyParseLine
  \/ ApplyProcessFile
  \/ ApplyFromResults
  \/ ApplyActivityRate
  \/ ApplySecondPass
  \/ ApplyCreateModel

SpecData == InitData /\ [][NextData]_vars

(***************************************************************************)
(* Properties of the scan data functions (SpecData).                       *)
(***************************************************************************)
CallApplied(call) == Applied /\ fn_in.call = call

\* the same ip and segment, and the same ports in some order
SameResult(a, b) == ScanResultHash(a) = ScanResultHash(b)

\* the ScanResult values a call hands back, as a list
ResultsOut ==
  IF fn_in.call = "process_gnmap_file" THEN fn_out.unique_results
  ELSE IF DOMAIN fn_out.segments = {} THEN <<>>
  ELSE LET Keys == DOMAIN fn_out.segments
           RECURSIVE Cat(_)
           Cat(K) == IF K = {} THEN <<>>
                     ELSE LET k == CHOOSE x \in K : TRUE
                          IN  fn_out.segments[k] \o Cat(K \ {k})
       IN  Cat(Keys)

\* C15: two ScanResult values of the same ip and segment whose port lists
\* hold the same ports in a different order are equal, and the parser and the
\* canonical model builder hand back one entry for them.
C15_AsStated ==
  (CallApplied("process_gnmap_file") \/ CallApplied("from_results")) =>
    /\ \A i, j \in DOMAIN ResultsOut :
         SameResult(ResultsOut[i], ResultsOut[j]) =>
           (i = j /\ ScanResultEq(ResultsOut[i], ResultsOut[j]))

\* the same (ip, port, segment)
SameService(a, b) == ServiceInfoHash(a) = ServiceInfoHash(b)

\* C16: two ServiceInfo values of the same (ip, port, segment) are equal
\* whatever their service name and category, and the service list of the
\* canonical model holds at most one record per (ip, port, segment).
C16_AsStated ==
  CallApplied("from_results") =>
    /\ \A a, b \in Range(fn_in.service_info) : SameService(a, b) => ServiceInfoEq(a, b)
    /\ \A i, j \in DOMAIN fn_out.all_services :
         SameService(fn_out.all_services[i], fn_out.all_services[j]) => i = j

\* the ports of the entries of a line that are in state open, in line order
OpenPortsOf(line) ==
  LET open == SelectSeq(line.entries, LAMBDA e : e.state = "open")
  IN  [i \in 1..Len(open) |-> open[i].port]

\* C17: for a host-with-ports line the parser records exactly the ports whose
\* entry is in state open; with at least one it yields one ScanResult with
\* those ports and the /24 segment of the host address plus one ServiceInfo
\* per open port, and with none it yields no ScanResult and no ServiceInfo;
\* every ScanResult of the parser has a non-empty port list.
C17_OnlyOpenPorts ==
  /\ (CallApplied("_parse_gnmap_line") /\ fn_in.line.kind = "host_ports") =>
       LET ports == OpenPortsOf(fn_in.line)
           ip == fn_in.line.ip
       IN  /\ ports # <<>> =>
                /\ fn_out.result = [ip |-> ip, ports |-> ports, segment |-> ip - (ip % 2)]
                /\ Len(fn_out.services) = Len(ports)
                /\ \A i \in 1..Len(ports) :
                     /\ fn_out.services[i].port = ports[i]
                     /\ fn_out.services[i].ip = ip
                     /\ fn_out.services[i].segment = ip - (ip % 2)
           /\ ports = <<>> => (fn_out.result = NoResult /\ fn_out.services = <<>>)
  /\ CallApplied("_parse_gnmap_line") =>
       (fn_out.result # NoResult => fn_out.result.ports # <<>>)
  /\ CallApplied("process_gnmap_file") =>
       \A i \in DOMAIN fn_out.unique_results : fn_out.unique_results[i].ports # <<>>

\* a line with an open entry after a filtered one, on an odd host address
C17_Witness ==
  /\ CallApplied("_parse_gnmap_line")
  /\ fn_in.line = HostPorts(3, <<PortEntry(80, "filtered"), PortEntry(22, "open")>>)
  /\ fn_out.result = ScanResult(3, <<22>>, 2)
  /\ Len(fn_out.services) = 1

\* a list without repetition
NoRepeat(s) == \A i, j \in DOMAIN s : s[i] = s[j] => i = j

\* the items of all groups of a dict of lists
GroupItems(d) == UNION {Range(d[k]) : k \in DOMAIN d}

\* C18: from_results places every deduplicated ScanResult in exactly one
\* segment group, the one of its own segment, and every deduplicated
\* ServiceInfo in exactly one category group and one ip group, those of its
\* own category and ip; the groups together hold the deduplicated inputs, no
\* group is empty, all_services is the deduplicated service collection and
\* stats is the stats passed in.
C18_Grouping ==
  CallApplied("from_results") =>
    /\ \A k \in DOMAIN fn_out.segments :
         /\ fn_out.segments[k] # <<>>
         /\ NoRepeat(fn_out.segments[k])
         /\ \A i \in DOMAIN fn_out.segments[k] : fn_out.segments[k][i].segment = k
    /\ GroupItems(fn_out.segments) = Range(fn_in.scan_results)
    /\ \A k \in DOMAIN fn_out.services_by_category :
         /\ fn_out.services_by_category[k] # <<>>
         /\ NoRepeat(fn_out.services_by_category[k])
         /\ \A i \in DOMAIN fn_out.services_by_category[k] :
              fn_out.services_by_category[k][i].category = k
    /\ GroupItems(fn_out.services_by_category) = Range(fn_in.service_info)
    /\ \A k \in DOMAIN fn_out.services_by_ip :
         /\ fn_out.services_by_ip[k] # <<>>
         /\ NoRepeat(fn_out.services_by_ip[k])
         /\ \A i \in DOMAIN fn_out.services_by_ip[k] : fn_out.services_by_ip[k][i].ip = k
    /\ GroupItems(fn_out.services_by_ip) = Range(fn_in.service_info)
    /\ NoRepeat(fn_out.all_services)
    /\ Range(fn_out.all_services) = Range(fn_in.service_info)
    /\ fn_out.stats = fn_in.stats

\* results of two segments and services of two categories on one ip
C18_Witness ==
  /\ CallApplied("from_results")
  /\ fn_in.scan_results = <<ScanResult(2, <<80>>, 2), ScanResult(1, <<22>>, 0)>>
  /\ fn_in.service_info = <<ServiceInfo(0, 80, "HTTP", "WEB_SERVICES", 0),
                            ServiceInfo(0, 22, "SSH", "ADMINISTRACION", 0)>>
  /\ DOMAIN fn_out.segments = {0, 2}
  /\ DOMAIN fn_out.services_by_category = {"WEB_SERVICES", "ADMINISTRACION"}
  /\ Len(fn_out.services_by_ip[0]) = 2
  /\ fn_out.stats = AuditStats(MaxNets, 1)

\* C19: activity_rate is 0 when total_segments is 0 and
\* (active_segments / total_segments) * 100 otherwise, and it raises no
\* division error for non-negative total_segments and active_segments.
C19_ActivityRate ==
  CallApplied("activity_rate") =>
    LET total == fn_in.stats.total_segments
        active == fn_in.stats.active_segments
    IN  /\ fn_out.status = "returned"
        /\ fn_out.den > 0
        /\ total = 0 => fn_out.num = 0
        /\ total > 0 => fn_out.num * total = active * 100 * fn_out.den

\* no segment was scanned: the guard answers 0 without dividing
C19_Witness ==
  /\ CallApplied("activity_rate")
  /\ fn_in.stats = AuditStats(0, 1)
  /\ fn_out = [status |-> "returned", num |-> 0, den |-> 1]

(***************************************************************************)
(* NetworkValidator.expand_ip_range.                                       *)
(***************************************************************************)
\* the highest address of a family (255.255.255.255 in IPv4)
TopAddr == Pow(2, AddrBits) - 1

\* the loop of expand_ip_range; current += 1 on the highest address raises
\* AddressValueError, a ValueError
RECURSIVE ExpandLoop(_, _, _)
ExpandLoop(current, end_ip, ips) ==
  IF current <= end_ip
    THEN IF current = TopAddr
           THEN [status |-> "ValueError", ips |-> <<>>]
           ELSE ExpandLoop(current + 1, end_ip, Append(ips, current))
    ELSE [status |-> "returned", ips |-> ips]

\* expand_ip_range: the list, or the exception that leaves the call.  A spec
\* that is not "a-b" fails in the unpacking or in ip_address with ValueError;
\* endpoints of different families make the comparison raise TypeError, which
\* the handler does not catch.
ExpandIpRange(ip_range, max_ips) ==
  IF ip_range.form # "range" THEN [status |-> "NetworkValidationError", ips |-> <<>>]
  ELSE IF ip_range.fa # ip_range.fb THEN [status |-> "TypeError", ips |-> <<>>]
  ELSE IF ip_range.a > ip_range.b THEN [status |-> "NetworkValidationError", ips |-> <<>>]
  ELSE LET ip_count == ip_range.b - ip_range.a + 1
       IN  IF ip_count > max_ips THEN [status |-> "NetworkValidationError", ips |-> <<>>]
           ELSE LET r == ExpandLoop(ip_range.a, ip_range.b, <<>>)
                IN  IF r.status = "ValueError"
                      THEN [status |-> "NetworkValidationError", ips |-> <<>>]
                      ELSE r

\* specs handed to expand_ip_range
RangeSpecs ==
  {IpRange(a, b) : a \in Addrs, b \in Addrs}
    \cup {Padded(IpRange(1, 2)), [IpRange(1, 2) EXCEPT !.fa = 6], Cidr(0, 2), Junk(0)}

\* validate_ip_range: "a-b" unpacks into two parts that ip_address parses;
\* anything else raises ValueError, which the handler answers with False
ValidateIpRange(ip_range) == IF ip_range.form = "range" THEN "True" ELSE "False"

\* strings handed to the validators: every CIDR and bare address, written
\* with and without surrounding blanks, ranges of one and of two families,
\* and strings that parse as neither
AnySpecs ==
  LET cidrs == {Cidr(a, p) : a \in Addrs, p \in (0..AddrBits) \cup {NoPrefix}}
      ranges == {[IpRange(a, b) EXCEPT !.fa = fa, !.fb = fb] :
                   a \in 0..1, b \in 0..1, fa \in {4, 6}, fb \in {4, 6}}
  IN  cidrs \cup ranges \cup {Padded(n) : n \in cidrs \cup ranges} \cup {Junk(0), Junk(1)}

\* specs handed to deduplicate_networks: several spellings of the same block
\* and of the same range among distinct ones
DedupPool ==
  {Cidr(0, 2), Cidr(1, 2), Cidr(4, 2), Cidr(2, NoPrefix), Cidr(2, AddrBits),
   IpRange(1, 3), Padded(IpRange(1, 3)), Padded(Cidr(0, 2)), Junk(0)}

InitNet ==
  /\ ScannerInit(1)
  /\ networks = <<>>
  /\ requested = {}
  /\ mainpc = "helper"
  /\ \/ fn_in \in [call : {"expand_ip_range"}, ip_range : RangeSpecs, max_ips : 0..(TopAddr + 1)]
     \/ fn_in \in [call : {"deduplicate_networks"}, networks : SeqsUpTo(DedupPool, MaxNets)]
     \/ fn_in \in [call : {"normalize_network", "validate_cidr", "validate_ip_range"},
                   network : AnySpecs]
     \/ fn_in \in [call : {"load_from_file"}, present : BOOLEAN,
                   lines : SeqsUpTo(LinePool \cup {Junk(0)}, MaxLines)]
  /\ fn_out = "none"

ApplyExpand ==
  /\ mainpc = "helper"
  /\ mainpc' = "applied"
  /\ fn_in.call = "expand_ip_range"
  /\ fn_out' = ExpandIpRange(fn_in.ip_range, fn_in.max_ips)
  /\ UNCHANGED <<scannerVars, semaphore, temp_files_registry, networks, requested, unit,
                 exists, used, poolVars, scan_result, runVars, fn_in>>

ApplyDeduplicate ==
  /\ mainpc = "helper"
  /\ mainpc' = "applied"
  /\ fn_in.call = "deduplicate_networks"
  /\ fn_out' = DeduplicateNetworks(fn_in.networks)
  /\ UNCHANGED <<scannerVars, semaphore, temp_files_registry, networks, requested, unit,
                 exists, used, poolVars, scan_result, runVars, fn_in>>

\* normalize_network applied to a string and then to its own result
ApplyNormalize ==
  /\ mainpc = "helper"
  /\ mainpc' = "applied"
  /\ fn_in.call = "normalize_network"
  /\ fn_out' = [once |-> NormalizeNetwork(fn_in.network),
                twice |-> NormalizeNetwork(NormalizeNetwork(fn_in.network))]
  /\ UNCHANGED <<scannerVars, semaphore, temp_files_registry, networks, requested, unit,
                 exists, used, poolVars, scan_result, runVars, fn_in>>

ApplyValidateCidr ==
  /\ mainpc = "helper"
  /\ mainpc' = "applied"
  /\ fn_in.call = "validate_cidr"
  /\ fn_out' = ValidateCidr(fn_in.network)
  /\ UNCHANGED <<scannerVars, semaphore, temp_files_registry, networks, requested, unit,
                 exists, used, poolVars, scan_result, runVars, fn_in>>

ApplyValidateIpRange ==
  /\ mainpc = "helper"
  /\ mainpc' = "applied"
  /\ fn_in.call = "validate_ip_range"
  /\ fn_out' = ValidateIpRange(fn_in.network)
  /\ UNCHANGED <<scannerVars, semaphore, temp_files_registry, networks, requested, unit,
                 exists, used, poolVars, scan_result, runVars, fn_in>>

\* load_from_file on a path: open() of a missing file raises
\* FileNotFoundError, answered with NetworkValidationError
LoadFromPath(present, lines) ==
  IF present THEN LoadFromFile(lines)
  ELSE [err |-> "NetworkValidationError", nets |-> <<>>]

ApplyLoadFromFile ==
  /\ mainpc = "helper"
  /\ mainpc' = "applied"
  /\ fn_in.call = "load_from_file"
  /\ fn_out' = LoadFromPath(fn_in.present, fn_in.lines)
  /\ UNCHANGED <<scannerVars, semaphore, temp_files_registry, networks, requested, unit,
                 exists, used, poolVars, scan_result, runVars, fn_in>>

NextNet ==
  \/ ApplyExpand
  \/ ApplyDeduplicate
  \/ ApplyNormalize
  \/ ApplyValidateCidr
  \/ ApplyValidateIpRange
  \/ ApplyLoadFromFile

SpecNet == InitNet /\ [][NextNet]_vars

(***************************************************************************)
(* Properties of NetworkValidator (SpecNet).                               *)
(***************************************************************************)
\* C20: expand_ip_range fails with NetworkValidationError when start > end or
\* when end - start + 1 exceeds max; otherwise it returns end - start + 1
\* addresses, from start to end, each one above the one before it.
C20_AsStated ==
  (CallApplied("expand_ip_range") /\ fn_in.ip_range.form = "range"
     /\ fn_in.ip_range.fa = fn_in.ip_range.fb) =>
    LET start == fn_in.ip_range.a
        end == fn_in.ip_range.b
    IN  IF start > end \/ end - start + 1 > fn_in.max_ips
          THEN fn_out.status = "NetworkValidationError"
          ELSE /\ fn_out.status = "returned"
               /\ Len(fn_out.ips) = end - start + 1
               /\ fn_out.ips[1] = start
               /\ fn_out.ips[Len(fn_out.ips)] = end
               /\ \A i \in 1..(Len(fn_out.ips) - 1) : fn_out.ips[i + 1] = fn_out.ips[i] + 1

\* the positions of a list of specs whose normal form no earlier position has
FirstOccurrences(nets) ==
  {k \in DOMAIN nets : \A j \in 1..(k - 1) : NormalizeNetwork(nets[j]) # NormalizeNetwork(nets[k])}

ValidSpec(n) == (n.form = "cidr" /\ ~n.ws) \/ n.form = "range"

\* C22: for every valid CIDR and range string x,
\* normalize_network(normalize_network(x)) = normalize_network(x).
C22_NormalizeIdempotent ==
  (CallApplied("normalize_network") /\ ValidSpec(fn_in.network)) => fn_out.twice = fn_out.once

\* a block written with host bits set, which the first application clears
C22_Witness ==
  /\ CallApplied("normalize_network")
  /\ fn_in.network = Cidr(3, 1)
  /\ fn_out.once = Cidr(0, 1)
  /\ fn_out.twice = Cidr(0, 1)

\* C23: validate_cidr returns a boolean and never raises: true for a
\* well-formed CIDR with no host bits set, false for a malformed address or
\* prefix and for a CIDR with host bits set.
C23_AsStated ==
  CallApplied("validate_cidr") =>
    LET n == fn_in.network
        wellFormed == n.form = "cidr" /\ ~n.ws
        hostBits == n.p # NoPrefix /\ MaskAddr(n.a, n.p) # n.a
    IN  /\ fn_out \in {"True", "False"}
        /\ fn_out = "True" <=> (wellFormed /\ ~hostBits)

\* C24: validate_ip_range returns true only for a string A-B whose two sides
\* parse as addresses of the same family, and false when the two sides parse
\* as addresses of different families.
C24_AsStated ==
  CallApplied("validate_ip_range") =>
    LET n == fn_in.network
    IN  /\ fn_out = "True" => (n.form = "range" /\ n.fa = n.fb)
        /\ (n.form = "range" /\ n.fa # n.fb) => fn_out = "False"

(***************************************************************************)
(* The tree merge.  A tree artifact is [parses, children]: whether ET.parse *)
(* accepts the file, and the children of its root; an element is [tag, n]  *)
(* with n the host of a host element and the total of a hosts count.       *)
(***************************************************************************)
Element(tag, n) == [tag |-> tag, n |-> n]
Host(n) == Element("host", n)
ScanInfo(n) == Element("scaninfo", n)

XmlDoc(children) == [parses |-> TRUE, children |-> children]
BrokenDoc == [parses |-> FALSE, children |-> <<>>]

\* file_root.findall('host')
FindAll(children, tag) == SelectSeq(children, LAMBDA e : e.tag = tag)

\* the loop of merge_xml_files over the input files
RECURSIVE MergeLoopAborts(_, _, _)
MergeLoopAborts(xml_files, children, total_hosts) ==
  IF xml_files = <<>> THEN [children |-> children, total_hosts |-> total_hosts]
  ELSE LET file == Head(xml_files)
       IN  IF ~file.parses
             THEN [children |-> children, total_hosts |-> total_hosts]
             ELSE LET hosts == FindAll(file.children, "host")
                      withHosts == children \o hosts
                      scaninfo == FindAll(file.children, "scaninfo")
                      withInfo == IF FindAll(withHosts, "scaninfo") = <<>> /\ scaninfo # <<>>
                                    THEN Append(withHosts, Head(scaninfo))
                                    ELSE withHosts
                  IN  MergeLoopAborts(Tail(xml_files), withInfo, total_hosts + Len(hosts))

RECURSIVE MergeLoop(_, _, _)
MergeLoop(xml_files, children, total_hosts) ==
  IF xml_files = <<>> THEN [children |-> children, total_hosts |-> total_hosts]
  ELSE LET file == Head(xml_files)
       IN  IF ~file.parses
             THEN MergeLoop(Tail(xml_files), children, total_hosts)
             ELSE LET hosts == FindAll(file.children, "host")
                      withHosts == children \o hosts
                      scaninfo == FindAll(file.children, "scaninfo")
                      withInfo == IF FindAll(withHosts, "scaninfo") = <<>> /\ scaninfo # <<>>
                                    THEN Append(withHosts, Head(scaninfo))
                                    ELSE withHosts
                  IN  MergeLoop(Tail(xml_files), withInfo, total_hosts + Len(hosts))

\* a file whose write failed: it holds no well-formed tree
Unwritten == [parses |-> FALSE, children |-> <<>>]

\* merge_xml_files: the value returned and the content of output_file;
\* write_ok tells whether tree.write succeeds
MergeXmlFiles(xml_files, write_ok) ==
  LET m == MergeLoop(xml_files, <<>>, 0)
      root == Append(m.children, Element("runstats", m.total_hosts))
  IN  IF write_ok THEN [ret |-> TRUE, output_file |-> XmlDoc(root)]
      ELSE [ret |-> FALSE, output_file |-> Unwritten]

\* _create_empty_xml
CreateEmptyXml == XmlDoc(<<>>)

MergeScanResultsNoFallback(xml_files, gnmap_ok, write_ok, empty_ok) ==
  IF ~gnmap_ok THEN [status |-> "ScanExecutionError", final_xml |-> Unwritten]
  ELSE [status |-> "returned", final_xml |-> MergeXmlFiles(xml_files, write_ok).output_file]

\* _merge_scan_results: gnmap_ok, write_ok and empty_ok tell whether the
\* merged report can be opened for writing and whether the write of the
\* merged tree and of the empty tree succeed
MergeScanResults(xml_files, gnmap_ok, write_ok, empty_ok) ==
  IF ~gnmap_ok THEN [status |-> "ScanExecutionError", final_xml |-> Unwritten]
  ELSE LET m == MergeXmlFiles(xml_files, write_ok)
       IN  IF m.ret THEN [status |-> "returned", final_xml |-> m.output_file]
           ELSE IF empty_ok THEN [status |-> "returned", final_xml |-> CreateEmptyXml]
           ELSE [status |-> "ScanExecutionError", final_xml |-> Unwritten]

\* tree artifacts of scan units: with and without scaninfo, the same host in
\* two of them, one without hosts, one that does not parse
DocPool ==
  {BrokenDoc,
   XmlDoc(<<ScanInfo(1), Host(1), Element("runstats", 1)>>),
   XmlDoc(<<Host(2), Host(3)>>),
   XmlDoc(<<ScanInfo(2), Host(1)>>),
   XmlDoc(<<ScanInfo(3), Element("runstats", 0)>>)}

InitMerge ==
  /\ ScannerInit(1)
  /\ networks = <<>>
  /\ requested = {}
  /\ mainpc = "helper"
  /\ \/ fn_in \in [call : {"merge_xml_files"}, xml_files : SeqsUpTo(DocPool, MaxXmlFiles),
                   write_ok : BOOLEAN]
     \/ fn_in \in [call : {"_merge_scan_results"}, xml_files : SeqsUpTo(DocPool, MaxXmlFiles),
                   gnmap_ok : BOOLEAN, write_ok : BOOLEAN, empty_ok : BOOLEAN]
  /\ fn_out = "none"

ApplyMergeXml ==
  /\ mainpc = "helper"
  /\ mainpc' = "applied"
  /\ fn_in.call = "merge_xml_files"
  /\ fn_out' = MergeXmlFiles(fn_in.xml_files, fn_in.write_ok)
  /\ UNCHANGED <<scannerVars, semaphore, temp_files_registry, networks, requested, unit,
                 exists, used, poolVars, scan_result, runVars, fn_in>>

ApplyMergeScanResults ==
  /\ mainpc = "helper"
  /\ mainpc' = "applied"
  /\ fn_in.call = "_merge_scan_results"
  /\ fn_out' = MergeScanResults(fn_in.xml_files, fn_in.gnmap_ok, fn_in.write_ok, fn_in.empty_ok)
  /\ UNCHANGED <<scannerVars, semaphore, temp_files_registry, networks, requested, unit,
                 exists, used, poolVars, scan_result, runVars, fn_in>>

NextMerge == ApplyMergeXml \/ ApplyMergeScanResults

SpecMerge == InitMerge /\ [][NextMerge]_vars

(***************************************************************************)
(* Properties of the tree merge (SpecMerge).                               *)
(***************************************************************************)
\* the host elements of the inputs that parse, in input order
RECURSIVE ParsedHosts(_)
ParsedHosts(xml_files) ==
  IF xml_files = <<>> THEN <<>>
  ELSE (IF Head(xml_files).parses
          THEN SelectSeq(Head(xml_files).children, LAMBDA e : e.tag = "host")
          ELSE <<>>) \o ParsedHosts(Tail(xml_files))

\* C25: an input that does not parse is skipped and the merge goes on; every
\* host element of every input that parsed is under the one root that is
\* written, and the total of the appended run statistics is the number of
\* host elements of the merged tree.
C25_MergeKeepsParsedHosts ==
  (CallApplied("merge_xml_files") /\ fn_in.write_ok) =>
    LET root == fn_out.output_file.children
        stats == SelectSeq(root, LAMBDA e : e.tag = "runstats")
    IN  /\ fn_out.ret
        /\ fn_out.output_file.parses
        /\ SelectSeq(root, LAMBDA e : e.tag = "host") = ParsedHosts(fn_in.xml_files)
        /\ Len(stats) = 1
        /\ stats[1].n = Len(SelectSeq(root, LAMBDA e : e.tag = "host"))

\* an input that does not parse between two that do
C25_Witness ==
  /\ CallApplied("merge_xml_files")
  /\ fn_in.xml_files = <<XmlDoc(<<Host(2), Host(3)>>), BrokenDoc, XmlDoc(<<ScanInfo(2), Host(1)>>)>>
  /\ fn_out.ret
  /\ fn_out.output_file.children = <<Host(2), Host(3), Host(1), ScanInfo(2), Element("runstats", 3)>>

\* C30: whenever _merge_scan_results returns, the merged tree artifact holds
\* a well-formed tree; when no input parses or the write of the merged tree
\* fails, that tree has no host element.
C30_AlwaysATree ==
  (CallApplied("_merge_scan_results") /\ fn_out.status = "returned") =>
    /\ fn_out.final_xml.parses
    /\ ((\A i \in DOMAIN fn_in.xml_files : ~fn_in.xml_files[i].parses) \/ ~fn_in.write_ok) =>
         SelectSeq(fn_out.final_xml.children, LAMBDA e : e.tag = "host") = <<>>
    /\ ~fn_in.write_ok => fn_out.final_xml.children = <<>>

\* the write of the merged tree failed and the empty tree was written
C30_Witness ==
  /\ CallApplied("_merge_scan_results")
  /\ fn_in.xml_files = <<XmlDoc(<<Host(2), Host(3)>>)>>
  /\ ~fn_in.write_ok
  /\ fn_out.status = "returned"
  /\ fn_out.final_xml = XmlDoc(<<>>)

(***************************************************************************)
(* Timeouts of the external invocations (SpecExec).                        *)
(***************************************************************************)
\* the attempts that the call under test made
CallsMade == IF fn_in.call = "detect_scan_method" THEN fn_out.probe.calls ELSE fn_out.calls

\* the retries allowed to the call under test
RetriesAllowed == IF fn_in.call = "detect_scan_method" THEN 2 ELSE MAX_RETRIES

\* C27: a timeout of an invocation is a retryable failure, for the scan tool
\* in execute_nmap_scan and for the probe in detect_scan_method: after an
\* attempt that timed out a further attempt is made while retries remain.
C27_AsStated ==
  Applied =>
    \A i \in 1..RetriesAllowed :
      (CallsMade >= i /\ fn_in.func[i] = "TimeoutExpired") => CallsMade > i

(***************************************************************************)
(* The delay of retry_with_backoff on its own.                             *)
(***************************************************************************)
InitBackoff ==
  /\ ScannerInit(1)
  /\ networks = <<>>
  /\ requested = {}
  /\ mainpc = "helper"
  /\ fn_in \in [attempt : 0..(MaxRetriesArg - 1), base_delay : {BASE_RETRY_DELAY, 3},
                backoff_factor : {2, 3}, jitter : BOOLEAN, tenths : JitterTenths]
  /\ fn_out = "none"

\* one failed attempt: the delay before jitter and the time slept
ApplyBackoff ==
  /\ mainpc = "helper"
  /\ mainpc' = "applied"
  /\ fn_out' = [delay |-> BackoffDelay(fn_in.attempt, fn_in.base_delay, fn_in.backoff_factor),
                slept |-> SleepTenths(fn_in.attempt, fn_in.base_delay, fn_in.backoff_factor,
                                      fn_in.jitter, fn_in.tenths)]
  /\ UNCHANGED <<scannerVars, semaphore, temp_files_registry, networks, requested, unit,
                 exists, used, poolVars, scan_result, runVars, fn_in>>

NextBackoff == ApplyBackoff

SpecBackoff == InitBackoff /\ [][NextBackoff]_vars

(***************************************************************************)
(* Properties of the delay (SpecBackoff).                                  *)
(***************************************************************************)
\* the number of the retry that follows the failed attempt: 1 for the first
RetryNumber == fn_in.attempt + 1

\* C28 as stated: the delay before retry n (n = 1 for the first retry) is
\* baseDelay * backoffFactor^n before jitter.
C28_AsStated ==
  Applied => fn_out.delay = fn_in.base_delay * Pow(fn_in.backoff_factor, RetryNumber)

\* C28: the delay before retry n (n = 1 for the first retry) is
\* baseDelay * backoffFactor^(n - 1) before jitter, so the first retry waits
\* baseDelay and each later one backoffFactor times the one before it; the
\* time slept is that delay times a jitter factor in [0.5, 1.5).
C28_DelayFromZero ==
  Applied =>
    /\ fn_out.delay = fn_in.base_delay * Pow(fn_in.backoff_factor, RetryNumber - 1)
    /\ RetryNumber = 1 => fn_out.delay = fn_in.base_delay
    /\ BackoffDelay(fn_in.attempt + 1, fn_in.base_delay, fn_in.backoff_factor)
         = fn_in.backoff_factor * fn_out.delay
    /\ fn_in.jitter => (5 * fn_out.delay <= fn_out.slept /\ fn_out.slept < 15 * fn_out.delay)

\* the third retry under the defaults, with the largest jitter of the model
C28_Witness ==
  /\ Applied
  /\ fn_in = [attempt |-> 2, base_delay |-> 1, backoff_factor |-> 2, jitter |-> TRUE,
              tenths |-> 14]
  /\ fn_out = [delay |-> 4, slept |-> 56]

(***************************************************************************)
(* Properties of the second pass (SpecData).                               *)
(***************************************************************************)
\* the hosts of which a line of the discovery report shows a port in state
\* open
HostsWithOpenPort ==
  {fn_in.lines[i].ip : i \in {j \in DOMAIN fn_in.lines : OpenPortsOf(fn_in.lines[j]) # <<>>}}

\* C29: when the discovery pass reports an active host, the second pass runs
\* with the slow-verification configuration on exactly the distinct addresses
\* of the hosts whose discovery line shows an open port: no spec of the
\* original list, no host without an open port, no address twice.
C29_SecondPassTargets ==
  CallApplied("_scan_with_verification") =>
    /\ fn_out.run <=> HostsWithOpenPort # {}
    /\ fn_out.run =>
         /\ fn_out.scan_type = "verified_slow"
         /\ Range(fn_out.targets) = HostsWithOpenPort
         /\ NoRepeat(fn_out.targets)
         /\ \A i \in DOMAIN fn_out.targets : fn_out.targets[i] \in Addrs

\* a host with a closed port only, and a host reported twice with an open one
C29_Witness ==
  /\ CallApplied("_scan_with_verification")
  /\ MaxHostLines >= 2
  /\ fn_in.networks = <<Cidr(0, 2), IpRange(1, 3)>>
  /\ Len(fn_in.lines) >= 2
  /\ fn_in.lines[1] = HostPorts(0, <<PortEntry(80, "closed")>>)
  /\ fn_in.lines[2] = HostPorts(1, <<PortEntry(22, "filtered"), PortEntry(80, "open")>>)
  /\ fn_out = [run |-> TRUE, targets |-> <<1>>, scan_type |-> "verified_slow"]


(***************************************************************************)
(* C26: in a parallel batch every scan unit probes the latency and selects *)
(* its tier itself, before its own execute_nmap_scan; a unit that has not  *)
(* probed yet carries no tier whatever the other units of the batch have   *)
(* selected, a unit that executes does so in a phase of its own tier, and  *)
(* so two units of one batch can run under different tiers.                *)
(***************************************************************************)
TieredPhases == {"main", "fast", "slow"}

C26_OwnTierPerUnit ==
  \A u \in Workers :
    /\ unit[u].pc \in {"idle", "queued", "gate", "detect"} => unit[u].phase = "none"
    /\ unit[u].pc \in {"prepare", "run"} => unit[u].phase \in TieredPhases

\* two units of one batch execute at once, one single-pass, one under the
\* verified tier, while a third has not probed yet
C26_Witness ==
  /\ mainpc \in {"submit", "collect"}
  /\ unit[1].pc = "run" /\ unit[1].phase = "main"
  /\ unit[2].pc = "run" /\ unit[2].phase = "fast"
  /\ unit[3].pc \in {"queued", "gate", "detect"} /\ unit[3].phase = "none"

(***************************************************************************)
(* Service naming of the parser (SpecData).                                *)
(***************************************************************************)
\* every ServiceInfo of a parsed line carries the configured service and
\* category of its port when PORT_CONFIG lists the port, and the service
\* "Unknown" with the category other otherwise
ServicesNamed(other) ==
  CallApplied("_parse_gnmap_line") =>
    \A i \in DOMAIN fn_out.services :
      LET s == fn_out.services[i]
      IN  IF s.port \in DOMAIN PORT_CONFIG
            THEN /\ s.service = PORT_CONFIG[s.port].service
                 /\ s.category = PORT_CONFIG[s.port].category
            ELSE s.service = "Unknown" /\ s.category = other

\* C31 as stated: for an open port that is not in the static port table the
\* parser produces a ServiceInfo with service "Unknown" and category "OTHER";
\* for a port in the table it produces the configured service and category.
C31_AsStated == ServicesNamed("OTHER")

\* C31 as amended: the ServiceInfo of an open port that is not in the static
\* port table has service "Unknown" and category "OTROS"; the ServiceInfo of
\* a port in the table has the configured service and category of that port.
C31_DefaultOtros == ServicesNamed("OTROS")

\* one line with an open port outside the table and an open port inside it
C31_Witness ==
  /\ CallApplied("_parse_gnmap_line")
  /\ fn_in.line = HostPorts(1, <<PortEntry(UnlistedPort, "open"), PortEntry(22, "open")>>)
  /\ fn_out.services = <<ServiceInfo(1, UnlistedPort, "Unknown", "OTROS", 0),
                         ServiceInfo(1, 22, "SSH", "ADMINISTRACION", 0)>>

(***************************************************************************)
(* Per-line errors of the file parse (SpecData).                           *)
(***************************************************************************)
\* the host-with-ports lines of the file whose parse does not raise and that
\* report an open port
WellFormedAt(lines) ==
  {i \in DOMAIN lines :
     /\ lines[i].kind = "host_ports"
     /\ \A k \in DOMAIN lines[i].entries : lines[i].entries[k].port # OverlongPort
     /\ OpenPortsOf(lines[i]) # <<>>}

\* the ScanResult of a well-formed line
RecordOf(line) == ScanResult(line.ip, OpenPortsOf(line), line.ip - (line.ip % 2))

\* C32: when the parse of one line of the file fails the line is skipped and
\* the parse of the file goes on: the call returns its two lists, the record
\* and the services of every well-formed line before and after the failing
\* one are in them, and nothing in them comes from the failing line.
C32_LineErrorSkipped ==
  CallApplied("process_gnmap_file") =>
    LET lines == fn_in.lines
        good == WellFormedAt(lines)
    IN  /\ DOMAIN fn_out = {"unique_results", "unique_services"}
        /\ \A i \in good :
             /\ RecordOf(lines[i]) \in Range(fn_out.unique_results)
             /\ \A k \in DOMAIN lines[i].entries :
                  lines[i].entries[k].state = "open" =>
                    \E s \in Range(fn_out.unique_services) :
                      /\ s.ip = lines[i].ip
                      /\ s.port = lines[i].entries[k].port
        /\ \A r \in Range(fn_out.unique_results) :
             \E i \in good : r = RecordOf(lines[i])
        /\ \A s \in Range(fn_out.unique_services) :
             \E i \in good : s.ip = lines[i].ip /\ s.port # OverlongPort

\* a failing line between two well-formed lines of different hosts
C32_Witness ==
  /\ CallApplied("process_gnmap_file")
  /\ fn_in.lines =
       <<HostPorts(0, <<PortEntry(22, "open"), PortEntry(80, "closed")>>),
         HostPorts(1, <<PortEntry(80, "open"), PortEntry(OverlongPort, "open")>>),
         HostPorts(Pow(2, AddrBits) - 1, <<PortEntry(80, "open"), PortEntry(22, "open")>>)>>
  /\ Len(fn_out.unique_results) = 2
  /\ Len(fn_out.unique_services) = 3

(***************************************************************************)
(* Order inside the groups of the canonical model (SpecData).              *)
(***************************************************************************)
\* the place of the first occurrence of x in the list
FirstIndex(list, x) == CHOOSE i \in DOMAIN list : list[i] = x /\ \A k \in 1..(i - 1) : list[k] # x

\* every group of the dict lists its items in the order of their first
\* occurrence in the input list
InInputOrder(d, input) ==
  \A key \in DOMAIN d :
    \A i, j \in DOMAIN d[key] :
      i < j => FirstIndex(input, d[key][i]) < FirstIndex(input, d[key][j])

\* C33: the entries of each group of the canonical model (results per
\* segment, services per category, services per ip) are in the order of their
\* first occurrence in the input collections.
C33_AsStated ==
  CallApplied("from_results") =>
    /\ InInputOrder(fn_out.segments, fn_in.scan_results)
    /\ InInputOrder(fn_out.services_by_category, fn_in.service_info)
    /\ InInputOrder(fn_out.services_by_ip, fn_in.service_info)

(***************************************************************************)
(* The structures the threads of a parallel batch share (SpecShared).      *)
(*   One pool thread runs scan_single_network for unit u.  The steps are   *)
(*   the entries and exits of the with blocks and of register_temp_file,   *)
(*   so that a thread can be seen inside a mutation; a thread holds        *)
(*   failed_networks_lock from the entry of "with failed_networks_lock:"   *)
(*   to the exit of that block.                                            *)
(***************************************************************************)
\* the artifacts one execute_nmap_scan registers, in the order of its calls
ToRegister == <<"targets", "gnmap", "xml">>

\* the artifacts unit u has still to register
LeftToRegister(u) ==
  SelectSeq(ToRegister, LAMBDA kind : <<u, "main", kind>> \notin temp_files_registry)

\* the positions at which a thread holds failed_networks_lock
LockedPositions == {"locked", "appended"}

HoldsFailedLock(u) == unit[u].pc \in LockedPositions

\* the thread is inside register_temp_file
InRegister(u) == unit[u].pc = "register"

\* the thread is inside the with block of failed_networks_lock
InFailedAppend(u) == unit[u].pc = "locked"

InitShared ==
  /\ \E jobs \in 2..MaxJobs : ScannerInit(jobs)
  /\ networks = <<>>
  /\ requested = {}
  /\ mainpc = "pool"
  /\ fn_in = "none"
  /\ fn_out = "none"

sharedFrame == <<scannerVars, networks, requested, exists, used, mainpc, gnmap_files,
                 submitted, collected, batch, scan_result, runVars, fnVars>>

\* with self.semaphore: entry, on a pool thread
EnterUnit(u) ==
  /\ unit[u].pc = "idle"
  /\ semaphore > 0
  /\ semaphore' = semaphore - 1
  /\ unit' = [unit EXCEPT ![u].pc = "in_unit"]
  /\ UNCHANGED <<sharedFrame, temp_files_registry, failed_networks>>

\* execute_nmap_scan calls register_temp_file: the thread enters the method;
\* nothing is acquired on the way in
RegisterEnter(u) ==
  /\ unit[u].pc = "in_unit"
  /\ LeftToRegister(u) # <<>>
  /\ unit' = [unit EXCEPT ![u].pc = "register"]
  /\ UNCHANGED <<sharedFrame, semaphore, temp_files_registry, failed_networks>>

\* self.temp_files_registry.append(filepath), and the return
RegisterAppend(u) ==
  /\ unit[u].pc = "register"
  /\ temp_files_registry' = temp_files_registry \cup {<<u, "main", Head(LeftToRegister(u))>>}
  /\ unit' = [unit EXCEPT ![u].pc = "in_unit"]
  /\ UNCHANGED <<sharedFrame, semaphore, failed_networks>>

\* the rest of scan_networks: the pair is returned or an exception reaches
\* the except clause of scan_single_network
ScanEnds(u) ==
  /\ unit[u].pc = "in_unit"
  /\ LeftToRegister(u) = <<>>
  /\ \E end \in {"returned", "raised"} : unit' = [unit EXCEPT ![u].pc = end]
  /\ UNCHANGED <<sharedFrame, semaphore, temp_files_registry, failed_networks>>

\* with failed_networks_lock: entry
LockFailed(u) ==
  /\ unit[u].pc = "raised"
  /\ \A v \in Workers : ~HoldsFailedLock(v)
  /\ unit' = [unit EXCEPT ![u].pc = "locked"]
  /\ UNCHANGED <<sharedFrame, semaphore, temp_files_registry, failed_networks>>

\* failed_networks.append(network)
AppendFailed(u) ==
  /\ unit[u].pc = "locked"
  /\ failed_networks' = Append(failed_networks, u)
  /\ unit' = [unit EXCEPT ![u].pc = "appended"]
  /\ UNCHANGED <<sharedFrame, semaphore, temp_files_registry>>

\* with failed_networks_lock: exit
UnlockFailed(u) ==
  /\ unit[u].pc = "appended"
  /\ unit' = [unit EXCEPT ![u].pc = "unlocked"]
  /\ UNCHANGED <<sharedFrame, semaphore, temp_files_registry, failed_networks>>

\* with self.semaphore: exit
LeaveUnit(u) ==
  /\ unit[u].pc \in {"returned", "unlocked"}
  /\ semaphore' = semaphore + 1
  /\ unit' = [unit EXCEPT ![u].pc = "done"]
  /\ UNCHANGED <<sharedFrame, temp_files_registry, failed_networks>>

NextShared ==
  \E u \in Workers :
    \/ EnterUnit(u)
    \/ RegisterEnter(u)
    \/ RegisterAppend(u)
    \/ ScanEnds(u)
    \/ LockFailed(u)
    \/ AppendFailed(u)
    \/ UnlockFailed(u)
    \/ LeaveUnit(u)

SpecShared == InitShared /\ [][NextShared]_vars

\* C34: every mutation of the failed-units list and of the temp-file registry
\* by a thread of the batch is performed while that thread holds a lock, so
\* no two threads are inside a mutation of the same structure at once.
C34_AsStated ==
  /\ \A u \in Workers : InFailedAppend(u) => HoldsFailedLock(u)
  /\ \A u \in Workers : InRegister(u) => HoldsFailedLock(u)
  /\ \A u, v \in Workers : (InFailedAppend(u) /\ InFailedAppend(v)) => u = v
  /\ \A u, v \in Workers : (InRegister(u) /\ InRegister(v)) => u = v

(***************************************************************************)
(* What runs after the batch (Spec).                                       *)
(***************************************************************************)
\* the calling thread merges the artifacts of the units, parses the merged
\* report or builds the canonical model
AfterBatchWork == mainpc \in {"merge", "merge_write", "scan_ret", "process", "export"}

\* C35: the merge of the per-unit artifacts, the parse of the merged report
\* and the construction of the canonical model run only when every scan unit
\* of the batch has completed and its thread is back in the pool: no unit is
\* queued or in flight in a state in which one of them is running.
C35_WorkAfterJoin ==
  AfterBatchWork =>
    /\ \A u \in 1..submitted : unit[u].pc = "done"
    /\ \A u \in Workers : ~InFlight(u) /\ unit[u].pc # "queued"
    /\ semaphore = parallel_jobs
    /\ submitted > 0 => (submitted = Len(networks) /\ collected = 1..submitted)

\* the merged report of a batch of three units, one of which failed, is parsed
C35_Witness ==
  /\ mainpc = "process"
  /\ submitted = 3
  /\ Len(failed_networks) = 1
  /\ Len(batch.merged) = 2

(***************************************************************************)
(* Invocations of the tool by one execute_nmap_scan (SpecExec).            *)
(***************************************************************************)
\* the first invocation that does not fail with a retryable error, or the
\* last one the budget allows
LastInvocation(func) ==
  CHOOSE n \in 1..(MAX_RETRIES + 1) :
    /\ \A i \in 1..(n - 1) : func[i] \in NmapRetryable
    /\ (func[n] \in NmapRetryable => n = MAX_RETRIES + 1)

\* C36: one execute_nmap_scan invokes the tool at most MAX_RETRIES + 1 = 4
\* times; every invocation but the last failed with a retryable error; no
\* invocation follows a zero exit, also when the validation of the artifacts
\* then fails; and no invocation follows a non-retryable error.
C36_InvocationBudget ==
  (Applied /\ fn_in.call = "execute_nmap_scan") =>
    LET func == fn_in.func
        n == fn_out.calls
    IN  /\ MAX_RETRIES + 1 = 4
        /\ n \in 1..(MAX_RETRIES + 1)
        /\ n = LastInvocation(func)
        /\ func[n] = "ok" =>
             /\ fn_out.validated
             /\ (ValidateScanResults(fn_in.g, fn_in.x) # "ok") => fn_out.result = "raised"
        /\ func[n] # "ok" => (fn_out.result = "raised" /\ ~fn_out.validated)
        /\ Len(fn_out.sleeps) = n - 1

\* the second invocation exits with zero and leaves a report without its
\* marker; a third invocation would have succeeded
C36_Witness ==
  /\ Applied
  /\ fn_in.call = "execute_nmap_scan"
  /\ fn_in.func[1] = "TimeoutExpired"
  /\ fn_in.func[2] = "ok"
  /\ fn_in.func[3] = "ok"
  /\ fn_in.g = "nomarker"
  /\ fn_out.calls = 2
  /\ fn_out.result = "raised"

(***************************************************************************)
(* A run with a repeated user interrupt (SpecReinterrupt).                 *)
(*   The first KeyboardInterrupt inside the pool's with block sends the    *)
(*   calling thread into ThreadPoolExecutor.__exit__, which joins the pool *)
(*   threads.  A further KeyboardInterrupt arrives in that join like at    *)
(*   any other point of the calling thread: the join is abandoned and the  *)
(*   exception leaves the with block while units are still running.        *)
(***************************************************************************)
InterruptJoin ==
  /\ mainpc = "pool_abort"
  /\ \E u \in 1..submitted : unit[u].pc # "done"
  /\ mainpc' = "exiting"
  /\ UNCHANGED <<scannerVars, semaphore, temp_files_registry, networks, requested, unit,
                 exists, used, poolVars, scan_result, runVars, fnVars>>

NextReinterrupt ==
  \/ Next
  \/ InterruptJoin

SpecReinterrupt == Init /\ [][NextReinterrupt]_vars

\* C37: temp-file cleanup never runs while a scan unit is in flight: when
\* the calling thread is about to run cleanup_temp_files, and ever after it
\* ran, no pool thread is inside a scan unit, so that no unit registers or
\* uses an artifact during or after cleanup, and what cleanup leaves is an
\* empty registry and no artifact.
C37_AsStated ==
  /\ mainpc = "exiting" => \A u \in Workers : ~InFlight(u)
  /\ mainpc = "exit" =>
       /\ \A u \in Workers : ~InFlight(u)
       /\ temp_files_registry = {}
       /\ exists = {}

(***************************************************************************)
(* The stats attached to the canonical model (SpecData).                   *)
(***************************************************************************)
\* C38: in the stats attached to the canonical model active_segments is the
\* number of segment groups of the model and never exceeds total_segments,
\* the number of network specs loaded, so that activity_rate lies between 0
\* and 100 inclusive.
C38_AsStated ==
  CallApplied("_create_canonical_model") =>
    LET stats == fn_out.stats
        rate == ActivityRate(stats)
    IN  /\ stats.total_segments = Len(fn_in.networks)
        /\ stats.active_segments = Cardinality(DOMAIN fn_out.segments)
        /\ stats.active_segments <= stats.total_segments
        /\ rate.status = "returned"
        /\ 0 <= rate.num /\ rate.num <= 100 * rate.den

(***************************************************************************)
(* Loading the network list from a file (SpecNet).                         *)
(***************************************************************************)
\* the line is a CIDR without host bits set, or a range of two addresses
ValidLine(line) ==
  \/ line.form = "cidr" /\ (line.p # NoPrefix => MaskAddr(line.a, line.p) = line.a)
  \/ line.form = "range" /\ line.fa = line.fb

\* C39: load_from_file ignores blank lines and comment lines, loads every
\* line that is a valid CIDR or a valid IP range in normalized form, and
\* skips a line that is neither without keeping the other lines from
\* loading; it fails with NetworkValidationError only when the file is
\* missing or holds no valid network.
C39_AsStated ==
  CallApplied("load_from_file") =>
    LET lines == fn_in.lines
        valid == {i \in DOMAIN lines : ValidLine(lines[i])}
    IN  /\ fn_out.err \in {"none", "NetworkValidationError"}
        /\ fn_out.err = "NetworkValidationError" <=> (~fn_in.present \/ valid = {})
        /\ fn_out.err = "none" =>
             /\ \A i \in valid : NormalizeNetwork(Strip(lines[i])) \in Range(fn_out.nets)
             /\ \A k \in DOMAIN fn_out.nets :
                  \E i \in DOMAIN lines :
                    /\ lines[i].form \in {"cidr", "range"}
                    /\ fn_out.nets[k] = NormalizeNetwork(Strip(lines[i]))
=============================================================================
